---- MODULE Spec2Model ----
(***************************************************************************)
(* State-machine model of the GitHub Projects v2 tool handlers of          *)
(* pkg/github: one handler invocation at a time, its request arguments,    *)
(* the client factory, the sequence of Query/Mutate calls it makes on the  *)
(* GraphQL client and the result it returns.                               *)
(***************************************************************************)
EXTENDS Integers, Sequences, FiniteSets, TLC

VARIABLES
    tool,       \* the handler function that is running (or ran last)
    request,    \* its request arguments: parameter name -> argument value
    clientErr,  \* whether getGQLClient returns an error for this invocation
    acquired,   \* number of getGQLClient calls made by this invocation
    calls,      \* the Query/Mutate calls made on the client, in order
    loc,        \* the handler's local variables
    pc,         \* position in the handler: "idle", a call site, or "done"
    result      \* what the handler returned

vars == <<tool, request, clientErr, acquired, calls, loc, pc, result>>

----------------------------------------------------------------------------
(* Argument values of a request: request.GetArguments()[p] is an untyped   *)
(* value; an absent key is the value Absent.                               *)

Absent  == [tag |-> "absent", v |-> "absent"]
Str(s)  == [tag |-> "str",  v |-> s]
Bool(b) == [tag |-> "bool", v |-> b]
Num(n)  == [tag |-> "num",  v |-> n]
Arr(a)  == [tag |-> "arr",  v |-> a]
Obj(m)  == [tag |-> "obj",  v |-> m]

Zero(type) ==
    CASE type = "str"  -> ""
      [] type = "bool" -> FALSE
      [] type = "num"  -> 0
      [] type = "arr"  -> <<>>
      [] type = "obj"  -> <<>>

\* RequiredParam[T](request, p): the value, or an error when the parameter is
\* absent or not of type T.  err = "" stands for a nil error.
RequiredParam(r, p, type) ==
    IF r[p].tag = "absent"
    THEN [value |-> Zero(type), err |-> "missing required parameter: " \o p]
    ELSE IF r[p].tag # type
    THEN [value |-> Zero(type), err |-> "parameter " \o p \o " is not of type " \o type]
    ELSE [value |-> r[p].v, err |-> ""]

\* OptionalParam[T](request, p): the zero value when absent (the callers
\* ignore the error it returns for a value of the wrong type).
OptionalParam(r, p, type) ==
    IF r[p].tag = type THEN r[p].v ELSE Zero(type)

\* OptionalIntParamWithDefault(request, p, d): d when the parameter is absent.
OptionalIntParamWithDefault(r, p, d) ==
    IF r[p].tag = "num" THEN r[p].v ELSE d

\* OptionalStringArrayParam(request, p): empty when absent; an error when the
\* value is not an array or an element is not a string.
OptionalStringArrayParam(r, p) ==
    IF r[p].tag = "absent" THEN [value |-> <<>>, err |-> ""]
    ELSE IF r[p].tag # "arr"
    THEN [value |-> <<>>, err |-> "parameter " \o p \o " could not be coerced to []string"]
    ELSE IF \E i \in DOMAIN r[p].v : r[p].v[i].tag # "str"
    THEN [value |-> <<>>, err |-> "parameter " \o p \o " could not be coerced to []string"]
    ELSE [value |-> [i \in DOMAIN r[p].v |-> r[p].v[i].v], err |-> ""]

----------------------------------------------------------------------------
(* Results of a handler: the pair of a CallToolResult and a Go error.     *)

NoResult == [kind |-> "none"]
\* return mcp.NewToolResultError(msg), nil
NewToolResultError(msg) == [kind |-> "toolError", msg |-> msg]
\* return nil, fmt.Errorf(msg)
GoError(msg) == [kind |-> "goError", msg |-> msg]
\* return mcp.NewToolResultText(json), nil
NewToolResultText(payload) == [kind |-> "text", payload |-> payload]

\* One call on the GraphQL client as the client stub records it.
Call(kind, op, input, ok) == [kind |-> kind, op |-> op, input |-> input, ok |-> ok]

\* The error text the client returns for a failed call.
ErrTexts == {"boom"}

NoLocals == [none |-> TRUE]

\* A handler is entered with a request and a client factory.  Handlers keep
\* no state between requests, so a behaviour is one invocation.
Begin(h, r, ce) ==
    /\ pc = "idle"
    /\ tool' = h
    /\ request' = r
    /\ clientErr' = ce
    /\ calls' = <<>>

Return(res) == result' = res /\ pc' = "done"
Goto(label) == result' = NoResult /\ pc' = label

----------------------------------------------------------------------------
(* create_project_board                                                    *)

\* What the server may answer to the owner query (user ID, organization ID),
\* to the repository query and to the createProjectV2 mutation.
OwnerAnswers == [user : {"", "U_1"}, organization : {"", "O_1"}]
RepositoryAnswers == {"", "R_1"}
CreatedProjects ==
    {[ID |-> "PVT_1", Number |-> 1, Title |-> "n", Public |-> FALSE,
      URL |-> "https://github.com/users/o/projects/1", Description |-> ""],
     [ID |-> "PVT_2", Number |-> 2, Title |-> "n", Public |-> FALSE,
      URL |-> "https://github.com/orgs/o/projects/2", Description |-> "d"]}

\* CreateProjectBoard_Params without the test of owner: the slip of reading
\* a declared-required parameter as an optional one.
CreateProjectBoard_Params_ownerOptional(r) ==
    IF RequiredParam(r, "name", "str").err # ""
    THEN NewToolResultError(RequiredParam(r, "name", "str").err)
    ELSE NoResult

CreateProjectBoard_Params(r) ==
    IF RequiredParam(r, "name", "str").err # ""
    THEN NewToolResultError(RequiredParam(r, "name", "str").err)
    ELSE IF RequiredParam(r, "owner", "str").err # ""
    THEN NewToolResultError(RequiredParam(r, "owner", "str").err)
    ELSE NoResult

CreateProjectBoard ==
    \E r \in [name        : {Absent, Str("n"), Num(1)},
              owner       : {Absent, Str("o")},
              description : {Absent, Str("d")},
              repository  : {Absent, Str("r")},
              template    : {Absent, Str("kanban")},
              public      : {Absent, Bool(TRUE), Bool(FALSE)}],
       ce \in BOOLEAN :
        LET early == CreateProjectBoard_Params(r) IN
        /\ Begin("CreateProjectBoard", r, ce)
        /\ loc' = NoLocals
        /\ IF early.kind # "none"
           THEN acquired' = 0 /\ Return(early)
           ELSE /\ acquired' = 1
                /\ IF ce
                   THEN Return(GoError("failed to get GitHub GraphQL client"))
                   ELSE Goto("CreateProjectBoard_ownerQuery")

\* CreateProjectBoard_ownerID trying the organization before the user.
CreateProjectBoard_ownerID_organizationFirst(ans) ==
    IF ans.organization # "" THEN ans.organization
    ELSE IF ans.user # "" THEN ans.user
    ELSE ""

\* The owner ID: the user's when non-empty, else the organization's, else "".
CreateProjectBoard_ownerID(ans) ==
    IF ans.user # "" THEN ans.user
    ELSE IF ans.organization # "" THEN ans.organization
    ELSE ""

\* The creation input built from the owner ID and the request.
CreateProjectBoard_input(ownerID, r) ==
    LET base == ("ownerId" :> ownerID) @@ ("title" :> RequiredParam(r, "name", "str").value)
    IN  IF OptionalParam(r, "description", "str") # ""
        THEN base @@ ("description" :> OptionalParam(r, "description", "str"))
        ELSE base

CreateProjectBoard_ownerQuery ==
    /\ pc = "CreateProjectBoard_ownerQuery"
    /\ LET vars_ == [login |-> RequiredParam(request, "owner", "str").value] IN
       \/ \E e \in ErrTexts :
            /\ calls' = Append(calls, Call("Query", "owner", vars_, FALSE))
            /\ Return(NewToolResultError("failed to get owner ID: " \o e))
            /\ loc' = loc
       \/ \E ans \in OwnerAnswers :
            /\ calls' = Append(calls, Call("Query", "owner", vars_, TRUE))
            /\ IF CreateProjectBoard_ownerID(ans) = ""
               THEN /\ Return(NewToolResultError("owner not found"))
                    /\ loc' = [ownerQuery |-> ans]
               ELSE /\ loc' = [ownerQuery |-> ans,
                               input |-> CreateProjectBoard_input(
                                            CreateProjectBoard_ownerID(ans), request)]
                    /\ IF OptionalParam(request, "repository", "str") # ""
                       THEN Goto("CreateProjectBoard_repoQuery")
                       ELSE Goto("CreateProjectBoard_createMutate")
    /\ UNCHANGED <<tool, request, clientErr, acquired>>

\* CreateProjectBoard_repoQuery going on to the creation after a failed query.
CreateProjectBoard_repoQuery_continuing ==
    /\ pc = "CreateProjectBoard_repoQuery"
    /\ LET vars_ == [owner |-> RequiredParam(request, "owner", "str").value,
                     name  |-> OptionalParam(request, "repository", "str")] IN
       \/ \E e \in ErrTexts :
            /\ calls' = Append(calls, Call("Query", "repository", vars_, FALSE))
            /\ loc' = [loc EXCEPT !.input = ("repositoryId" :> "") @@ loc.input]
            /\ Goto("CreateProjectBoard_createMutate")
       \/ \E id \in RepositoryAnswers :
            /\ calls' = Append(calls, Call("Query", "repository", vars_, TRUE))
            /\ loc' = [loc EXCEPT !.input = ("repositoryId" :> id) @@ loc.input]
            /\ Goto("CreateProjectBoard_createMutate")
    /\ UNCHANGED <<tool, request, clientErr, acquired>>

CreateProjectBoard_repoQuery ==
    /\ pc = "CreateProjectBoard_repoQuery"
    /\ LET vars_ == [owner |-> RequiredParam(request, "owner", "str").value,
                     name  |-> OptionalParam(request, "repository", "str")] IN
       \/ \E e \in ErrTexts :
            /\ calls' = Append(calls, Call("Query", "repository", vars_, FALSE))
            /\ Return(NewToolResultError("failed to get repository ID: " \o e))
            /\ loc' = loc
       \/ \E id \in RepositoryAnswers :
            /\ calls' = Append(calls, Call("Query", "repository", vars_, TRUE))
            /\ loc' = [loc EXCEPT !.input = ("repositoryId" :> id) @@ loc.input]
            /\ Goto("CreateProjectBoard_createMutate")
    /\ UNCHANGED <<tool, request, clientErr, acquired>>

\* The result map built from the createProjectV2 response.
CreateProjectBoard_result(created, r) ==
    [id          |-> created.ID,
     number      |-> created.Number,
     title       |-> created.Title,
     url         |-> created.URL,
     description |-> created.Description,
     public      |-> created.Public,
     template    |-> OptionalParam(r, "template", "str")]

CreateProjectBoard_createMutate ==
    /\ pc = "CreateProjectBoard_createMutate"
    /\ \/ \E e \in ErrTexts :
            /\ calls' = Append(calls, Call("Mutate", "createProjectV2", loc.input, FALSE))
            /\ Return(NewToolResultError("failed to create project board: " \o e))
            /\ loc' = loc
       \/ \E created \in CreatedProjects :
            /\ calls' = Append(calls, Call("Mutate", "createProjectV2", loc.input, TRUE))
            /\ loc' = loc @@ [created |-> created]
            /\ IF OptionalParam(request, "public", "bool")
               THEN Goto("CreateProjectBoard_updateMutate")
               ELSE Return(NewToolResultText(CreateProjectBoard_result(created, request)))
    /\ UNCHANGED <<tool, request, clientErr, acquired>>

\* CreateProjectBoard_afterUpdate treating the visibility error as fatal.
CreateProjectBoard_afterUpdate_fatal(err, created, r) ==
    IF err # ""
    THEN NewToolResultError("failed to update project visibility: " \o err)
    ELSE NewToolResultText(CreateProjectBoard_result(created, r))

\* What the handler returns after the visibility update, whose error (err,
\* "" for nil) is only printed as a warning.
CreateProjectBoard_afterUpdate(err, created, r) ==
    NewToolResultText(CreateProjectBoard_result(created, r))

CreateProjectBoard_updateMutate ==
    /\ pc = "CreateProjectBoard_updateMutate"
    /\ LET input == [projectId |-> loc.created.ID,
                     public    |-> OptionalParam(request, "public", "bool")] IN
       \/ \E e \in ErrTexts :
            /\ calls' = Append(calls, Call("Mutate", "updateProjectV2", input, FALSE))
            /\ Return(CreateProjectBoard_afterUpdate(e, loc.created, request))
       \/ /\ calls' = Append(calls, Call("Mutate", "updateProjectV2", input, TRUE))
          /\ Return(CreateProjectBoard_afterUpdate("", loc.created, request))
    /\ UNCHANGED <<tool, request, clientErr, acquired, loc>>

----------------------------------------------------------------------------
(* Timestamps: a time is a number of seconds, 0 the zero time.Time.        *)

Times == {0, 1, 2}
IsZero(t) == t = 0

\* t.Format("2006-01-02T15:04:05Z")
FormatTime(t) ==
    CASE t = 0 -> "0001-01-01T00:00:00Z"
      [] t = 1 -> "2024-01-01T00:00:00Z"
      [] OTHER -> "2024-06-30T12:00:00Z"

----------------------------------------------------------------------------
(* update_project_board                                                    *)

UpdatedProjects ==
    {[ID |-> "PVT_1", Title |-> "t", Description |-> "d", ShortDescription |-> "s",
      Public |-> TRUE, Closed |-> FALSE, URL |-> "https://github.com/users/o/projects/1",
      UpdatedAt |-> 2]}

UpdateProjectBoard_Params(r) ==
    IF RequiredParam(r, "board_id", "str").err # ""
    THEN NewToolResultError(RequiredParam(r, "board_id", "str").err)
    ELSE NoResult

UpdateProjectBoard ==
    \E r \in [board_id          : {Absent, Str("PVT_1")},
              title             : {Absent, Str(""), Str("t"), Num(1)},
              description       : {Absent, Str("d")},
              short_description : {Absent, Str("s")},
              public            : {Absent, Bool(TRUE), Bool(FALSE), Str("yes")},
              closed            : {Absent, Bool(TRUE)}],
       ce \in BOOLEAN :
        LET early == UpdateProjectBoard_Params(r) IN
        /\ Begin("UpdateProjectBoard", r, ce)
        /\ loc' = NoLocals
        /\ IF early.kind # "none"
           THEN acquired' = 0 /\ Return(early)
           ELSE /\ acquired' = 1
                /\ IF ce
                   THEN Return(GoError("failed to get GitHub GraphQL client"))
                   ELSE Goto("UpdateProjectBoard_mutate")

\* One optional string field of the update input: present in the request as
\* a non-empty string.
UpdateProjectBoard_strField(r, p, key) ==
    IF r[p].tag = "str" /\ r[p].v # "" THEN key :> r[p].v ELSE <<>>

\* UpdateProjectBoard_boolField sending false for a flag the request lacks.
UpdateProjectBoard_boolField_defaulted(r, p, key) ==
    key :> OptionalParam(r, p, "bool")

\* One optional boolean field of the update input.
UpdateProjectBoard_boolField(r, p, key) ==
    IF r[p].tag = "bool" THEN key :> r[p].v ELSE <<>>

\* The sparse update input.
UpdateProjectBoard_input(r) ==
    ("projectId" :> RequiredParam(r, "board_id", "str").value)
      @@ UpdateProjectBoard_strField(r, "title", "title")
      @@ UpdateProjectBoard_strField(r, "description", "description")
      @@ UpdateProjectBoard_strField(r, "short_description", "shortDescription")
      @@ UpdateProjectBoard_boolField(r, "public", "public")
      @@ UpdateProjectBoard_boolField(r, "closed", "closed")

UpdateProjectBoard_result(p) ==
    [id                |-> p.ID,
     title             |-> p.Title,
     description       |-> p.Description,
     short_description |-> p.ShortDescription,
     public            |-> p.Public,
     closed            |-> p.Closed,
     url               |-> p.URL,
     updated_at        |-> FormatTime(p.UpdatedAt)]

UpdateProjectBoard_mutate ==
    /\ pc = "UpdateProjectBoard_mutate"
    /\ LET input == UpdateProjectBoard_input(request) IN
       \/ \E e \in ErrTexts :
            /\ calls' = Append(calls, Call("Mutate", "updateProjectV2", input, FALSE))
            /\ Return(NewToolResultError("failed to update project board: " \o e))
       \/ \E p \in UpdatedProjects :
            /\ calls' = Append(calls, Call("Mutate", "updateProjectV2", input, TRUE))
            /\ Return(NewToolResultText(UpdateProjectBoard_result(p)))
    /\ UNCHANGED <<tool, request, clientErr, acquired, loc>>

----------------------------------------------------------------------------
(* delete_project_board                                                    *)

\* DeleteProjectBoard_Params without the test of the value of confirm.
DeleteProjectBoard_Params_unconfirmed(r) ==
    IF RequiredParam(r, "board_id", "str").err # ""
    THEN NewToolResultError(RequiredParam(r, "board_id", "str").err)
    ELSE IF RequiredParam(r, "confirm", "bool").err # ""
    THEN NewToolResultError(RequiredParam(r, "confirm", "bool").err)
    ELSE NoResult

\* Parameter validation and the confirmation check: the result returned
\* early, or NoResult when the handler goes on.
DeleteProjectBoard_Params(r) ==
    IF RequiredParam(r, "board_id", "str").err # ""
    THEN NewToolResultError(RequiredParam(r, "board_id", "str").err)
    ELSE IF RequiredParam(r, "confirm", "bool").err # ""
    THEN NewToolResultError(RequiredParam(r, "confirm", "bool").err)
    ELSE IF ~RequiredParam(r, "confirm", "bool").value
    THEN NewToolResultError("deletion not confirmed - set confirm to true to delete")
    ELSE NoResult

DeleteProjectBoard ==
    \E r \in [board_id : {Absent, Str("PVT_1"), Num(1)},
              confirm  : {Absent, Bool(TRUE), Bool(FALSE), Str("yes")}],
       ce \in BOOLEAN :
        LET early == DeleteProjectBoard_Params(r) IN
        /\ Begin("DeleteProjectBoard", r, ce)
        /\ loc' = NoLocals
        /\ IF early.kind # "none"
           THEN acquired' = 0 /\ Return(early)
           ELSE /\ acquired' = 1
                /\ IF ce
                   THEN Return(GoError("failed to get GitHub GraphQL client"))
                   ELSE Goto("DeleteProjectBoard_mutate")

DeleteProjectBoard_mutate ==
    /\ pc = "DeleteProjectBoard_mutate"
    /\ LET input == [projectId |-> RequiredParam(request, "board_id", "str").value] IN
       \/ \E e \in ErrTexts :
            /\ calls' = Append(calls, Call("Mutate", "deleteProjectV2", input, FALSE))
            /\ Return(NewToolResultError("failed to delete project board: " \o e))
       \/ \E id \in {"PVT_1", "PVT_2"} :
            /\ calls' = Append(calls, Call("Mutate", "deleteProjectV2", input, TRUE))
            /\ Return(NewToolResultText([deleted |-> TRUE, id |-> id]))
    /\ UNCHANGED <<tool, request, clientErr, acquired, loc>>

----------------------------------------------------------------------------
(* list_project_boards                                                     *)

\* Largest number of nodes the server returns for one connection in the model.
MaxNodes == 2
\* limit's default and its cap.
DefaultLimit == 20
MaxLimit == 100

Min(a, b) == IF a < b THEN a ELSE b
SeqsUpTo(S, n) == UNION {[1..k -> S] : k \in 0..n}

ProjectNodes ==
    {[ID |-> "PVT_1", Number |-> 1, Title |-> "a", Description |-> "", ShortDescription |-> "",
      Public |-> FALSE, Closed |-> FALSE, URL |-> "https://github.com/users/o/projects/1",
      CreatedAt |-> 1, UpdatedAt |-> 2, ItemsTotalCount |-> 3],
     [ID |-> "PVT_2", Number |-> 2, Title |-> "b", Description |-> "d", ShortDescription |-> "s",
      Public |-> TRUE, Closed |-> TRUE, URL |-> "https://github.com/orgs/o/projects/2",
      CreatedAt |-> 0, UpdatedAt |-> 0, ItemsTotalCount |-> 0]}

ListProjectBoards_Params(r) ==
    IF RequiredParam(r, "owner", "str").err # ""
    THEN NewToolResultError(RequiredParam(r, "owner", "str").err)
    ELSE NoResult

\* ownerType, defaulting to "all".
ListProjectBoards_ownerType(r) ==
    IF OptionalParam(r, "type", "str") = "" THEN "all" ELSE OptionalParam(r, "type", "str")

\* limit, defaulting to 20 and capped at 100.
ListProjectBoards_limit(r) ==
    IF OptionalIntParamWithDefault(r, "limit", DefaultLimit) > MaxLimit
    THEN MaxLimit
    ELSE OptionalIntParamWithDefault(r, "limit", DefaultLimit)

ListProjectBoards ==
    \E r \in [owner          : {Absent, Str("o")},
              type           : {Absent, Str("user"), Str("organization"), Str("all"), Str("team")},
              include_closed : {Absent, Bool(TRUE)},
              limit          : {Absent, Num(1), Num(150)}],
       ce \in BOOLEAN :
        LET early == ListProjectBoards_Params(r) IN
        /\ Begin("ListProjectBoards", r, ce)
        /\ IF early.kind # "none"
           THEN acquired' = 0 /\ Return(early) /\ loc' = NoLocals
           ELSE /\ acquired' = 1
                /\ loc' = [ownerType     |-> ListProjectBoards_ownerType(r),
                           includeClosed |-> OptionalParam(r, "include_closed", "bool"),
                           limit         |-> ListProjectBoards_limit(r)]
                /\ IF ce
                   THEN Return(GoError("failed to get GitHub GraphQL client"))
                   ELSE Goto("ListProjectBoards_query")

\* One output entry for a project node found in the ownerType namespace.
ListProjectBoards_entry(project, ownerType) ==
    [id                |-> project.ID,
     number            |-> project.Number,
     title             |-> project.Title,
     description       |-> project.Description,
     short_description |-> project.ShortDescription,
     public            |-> project.Public,
     closed            |-> project.Closed,
     url               |-> project.URL,
     created_at        |-> FormatTime(project.CreatedAt),
     updated_at        |-> FormatTime(project.UpdatedAt),
     items_count       |-> project.ItemsTotalCount,
     owner_type        |-> ownerType]

\* Whether the user (resp. organization) projects are added for ownerType.
ListProjectBoards_addUser(ownerType) == ownerType = "user" \/ ownerType = "all"
\* ListProjectBoards_addOrganization without the test of ownerType.
ListProjectBoards_addOrganization_unfiltered(ownerType) == TRUE
ListProjectBoards_addOrganization(ownerType) == ownerType = "organization" \/ ownerType = "all"

\* The merged list: user projects first, then organization projects.
ListProjectBoards_projects(ownerType, userNodes, orgNodes) ==
    (IF ListProjectBoards_addUser(ownerType)
     THEN [i \in DOMAIN userNodes |-> ListProjectBoards_entry(userNodes[i], "user")]
     ELSE <<>>)
    \o
    (IF ListProjectBoards_addOrganization(ownerType)
     THEN [i \in DOMAIN orgNodes |-> ListProjectBoards_entry(orgNodes[i], "organization")]
     ELSE <<>>)

ListProjectBoards_result(projects) ==
    [projects |-> projects, total_count |-> Len(projects)]

ListProjectBoards_query ==
    /\ pc = "ListProjectBoards_query"
    /\ LET vars_ == [login         |-> RequiredParam(request, "owner", "str").value,
                     limit         |-> loc.limit,
                     includeClosed |-> loc.includeClosed] IN
       \/ \E e \in ErrTexts :
            /\ calls' = Append(calls, Call("Query", "projectsV2", vars_, FALSE))
            /\ Return(NewToolResultError("failed to list project boards: " \o e))
            /\ loc' = loc
       \/ \E userNodes \in SeqsUpTo(ProjectNodes, Min(loc.limit, MaxNodes)),
             orgNodes \in SeqsUpTo(ProjectNodes, Min(loc.limit, MaxNodes)) :
            /\ calls' = Append(calls, Call("Query", "projectsV2", vars_, TRUE))
            /\ loc' = loc @@ [userNodes |-> userNodes, orgNodes |-> orgNodes]
            /\ Return(NewToolResultText(ListProjectBoards_result(
                   ListProjectBoards_projects(loc.ownerType, userNodes, orgNodes))))
    /\ UNCHANGED <<tool, request, clientErr, acquired>>

----------------------------------------------------------------------------
(* get_project_board                                                       *)

BoardAnswers ==
    \* Field nodes of a project: only the branch named by TypeName is populated.
    LET NoFieldBranch == [ID |-> "", Name |-> ""]
        NoSingleSelectBranch == [ID |-> "", Name |-> "", Options |-> <<>>]
        FieldNodeText ==
            [TypeName |-> "ProjectV2Field", Field |-> [ID |-> "F_1", Name |-> "Title"],
             SingleSelectField |-> NoSingleSelectBranch, IterationField |-> NoFieldBranch]
        FieldNodeStatus ==
            [TypeName |-> "ProjectV2SingleSelectField", Field |-> NoFieldBranch,
             SingleSelectField |-> [ID |-> "F_2", Name |-> "Status",
                                    Options |-> <<[ID |-> "O_1", Name |-> "Todo"],
                                                  [ID |-> "O_2", Name |-> "Done"]>>],
             IterationField |-> NoFieldBranch]
        FieldNodeIteration ==
            [TypeName |-> "ProjectV2IterationField", Field |-> NoFieldBranch,
             SingleSelectField |-> NoSingleSelectBranch,
             IterationField |-> [ID |-> "F_3", Name |-> "Sprint"]]
        FieldNodeUnknown ==
            [TypeName |-> "ProjectV2OtherField", Field |-> NoFieldBranch,
             SingleSelectField |-> NoSingleSelectBranch, IterationField |-> NoFieldBranch]
    IN  [ID : {"PVT_1"}, Number : {1}, Title : {"a"}, Description : {"d"}, ShortDescription : {"s"},
         Public : {FALSE}, Closed : {FALSE}, URL : {"https://github.com/users/o/projects/1"},
         CreatedAt : {0, 1}, UpdatedAt : {2},
         Owner : {[TypeName |-> "User", User |-> "u", Organization |-> ""],
                  [TypeName |-> "Organization", User |-> "", Organization |-> "g"],
                  [TypeName |-> "", User |-> "", Organization |-> ""]},
         ItemsTotalCount : {0, 3},
         Fields : {<<>>, <<FieldNodeText, FieldNodeStatus>>, <<FieldNodeIteration, FieldNodeUnknown>>},
         FieldsTotalCount : {2}]

GetProjectBoard_Params(r) ==
    IF RequiredParam(r, "board_id", "str").err # ""
    THEN NewToolResultError(RequiredParam(r, "board_id", "str").err)
    ELSE NoResult

\* includeFields / includeStats as the handler computes them from the flag.
GetProjectBoard_flag(r, p) ==
    IF OptionalParam(r, p, "bool") = FALSE THEN TRUE ELSE OptionalParam(r, p, "bool")

GetProjectBoard ==
    \E r \in [board_id       : {Absent, Str("PVT_1")},
              include_fields : {Absent, Bool(TRUE), Bool(FALSE)},
              include_stats  : {Absent, Bool(TRUE), Bool(FALSE)}],
       ce \in BOOLEAN :
        LET early == GetProjectBoard_Params(r) IN
        /\ Begin("GetProjectBoard", r, ce)
        /\ IF early.kind # "none"
           THEN acquired' = 0 /\ Return(early) /\ loc' = NoLocals
           ELSE /\ acquired' = 1
                /\ loc' = [includeFields |-> GetProjectBoard_flag(r, "include_fields"),
                           includeStats  |-> GetProjectBoard_flag(r, "include_stats")]
                /\ IF ce
                   THEN Return(GoError("failed to get GitHub GraphQL client"))
                   ELSE Goto("GetProjectBoard_query")

GetProjectBoard_ownerLogin(owner) ==
    IF owner.TypeName = "User" THEN owner.User
    ELSE IF owner.TypeName = "Organization" THEN owner.Organization
    ELSE ""

GetProjectBoard_options(opts) ==
    [i \in DOMAIN opts |-> [id |-> opts[i].ID, name |-> opts[i].Name]]

GetProjectBoard_fieldData(field) ==
    [type |-> field.TypeName] @@
    (CASE field.TypeName = "ProjectV2Field" ->
            [id |-> field.Field.ID, name |-> field.Field.Name]
       [] field.TypeName = "ProjectV2SingleSelectField" ->
            [id |-> field.SingleSelectField.ID, name |-> field.SingleSelectField.Name,
             options |-> GetProjectBoard_options(field.SingleSelectField.Options)]
       [] field.TypeName = "ProjectV2IterationField" ->
            [id |-> field.IterationField.ID, name |-> field.IterationField.Name]
       [] OTHER -> <<>>)

GetProjectBoard_result(project, includeStats, includeFields) ==
    [id                |-> project.ID,
     number            |-> project.Number,
     title             |-> project.Title,
     description       |-> project.Description,
     short_description |-> project.ShortDescription,
     public            |-> project.Public,
     closed            |-> project.Closed,
     url               |-> project.URL,
     created_at        |-> FormatTime(project.CreatedAt),
     updated_at        |-> FormatTime(project.UpdatedAt),
     owner             |-> [login |-> GetProjectBoard_ownerLogin(project.Owner),
                            type  |-> project.Owner.TypeName]]
    @@ (IF includeStats
        THEN [statistics |-> [total_items |-> project.ItemsTotalCount]]
        ELSE <<>>)
    @@ (IF includeFields
        THEN [fields |-> [i \in DOMAIN project.Fields |->
                             GetProjectBoard_fieldData(project.Fields[i])],
              fields_count |-> project.FieldsTotalCount]
        ELSE <<>>)

GetProjectBoard_query ==
    /\ pc = "GetProjectBoard_query"
    /\ LET vars_ == [id |-> RequiredParam(request, "board_id", "str").value] IN
       \/ \E e \in ErrTexts :
            /\ calls' = Append(calls, Call("Query", "node", vars_, FALSE))
            /\ Return(NewToolResultError("failed to get project board: " \o e))
            /\ loc' = loc
       \/ \E project \in BoardAnswers :
            /\ calls' = Append(calls, Call("Query", "node", vars_, TRUE))
            /\ loc' = loc @@ [project |-> project]
            /\ Return(NewToolResultText(
                   GetProjectBoard_result(project, loc.includeStats, loc.includeFields)))
    /\ UNCHANGED <<tool, request, clientErr, acquired>>

----------------------------------------------------------------------------
(* create_project_column                                                   *)

\* The WIP limit reported when the request gives none.
DefaultColumnLimit == 10

StatusFieldAnswers ==
    \* The Status field as the server returns it: an empty ID when the project
    \* has no single-select field of that name.
    LET StatusOptions ==
            {<<>>,
             <<[ID |-> "O_1", Name |-> "Todo", Description |-> "", Color |-> "GRAY"],
               [ID |-> "O_2", Name |-> "Done", Description |-> "finished", Color |-> "GREEN"]>>}
    IN  {[ID |-> "", Name |-> "", Options |-> <<>>]}
          \cup [ID : {"F_2"}, Name : {"Status"}, Options : StatusOptions]

CreateProjectColumn_Params(r) ==
    IF RequiredParam(r, "board_id", "str").err # ""
    THEN NewToolResultError(RequiredParam(r, "board_id", "str").err)
    ELSE IF RequiredParam(r, "name", "str").err # ""
    THEN NewToolResultError(RequiredParam(r, "name", "str").err)
    ELSE NoResult

CreateProjectColumn ==
    \E r \in [board_id    : {Absent, Str("PVT_1")},
              name        : {Absent, Str("Review"), Num(1)},
              description : {Absent, Str("d")},
              limit       : {Absent, Num(5)},
              color       : {Absent, Str("ff0000")}],
       ce \in BOOLEAN :
        LET early == CreateProjectColumn_Params(r) IN
        /\ Begin("CreateProjectColumn", r, ce)
        /\ loc' = NoLocals
        /\ IF early.kind # "none"
           THEN acquired' = 0 /\ Return(early)
           ELSE /\ acquired' = 1
                /\ IF ce
                   THEN Return(GoError("failed to get GitHub GraphQL client"))
                   ELSE Goto("CreateProjectColumn_query")

CreateProjectColumn_result(statusFieldID, r) ==
    [field_id    |-> statusFieldID,
     name        |-> RequiredParam(r, "name", "str").value,
     description |-> OptionalParam(r, "description", "str"),
     color       |-> OptionalParam(r, "color", "str"),
     limit       |-> OptionalIntParamWithDefault(r, "limit", DefaultColumnLimit),
     message     |-> "Column creation request submitted. Note: GitHub Projects API v2 manages columns as Status field options."]

\* CreateProjectColumn_query without the test of the Status field's ID.
CreateProjectColumn_query_anyField ==
    /\ pc = "CreateProjectColumn_query"
    /\ LET vars_ == [id |-> RequiredParam(request, "board_id", "str").value] IN
       \/ \E e \in ErrTexts :
            /\ calls' = Append(calls, Call("Query", "statusField", vars_, FALSE))
            /\ Return(NewToolResultError("failed to get project Status field: " \o e))
            /\ loc' = loc
       \/ \E field \in StatusFieldAnswers :
            /\ calls' = Append(calls, Call("Query", "statusField", vars_, TRUE))
            /\ loc' = [statusField |-> field]
            /\ Return(NewToolResultText(CreateProjectColumn_result(field.ID, request)))
    /\ UNCHANGED <<tool, request, clientErr, acquired>>

CreateProjectColumn_query ==
    /\ pc = "CreateProjectColumn_query"
    /\ LET vars_ == [id |-> RequiredParam(request, "board_id", "str").value] IN
       \/ \E e \in ErrTexts :
            /\ calls' = Append(calls, Call("Query", "statusField", vars_, FALSE))
            /\ Return(NewToolResultError("failed to get project Status field: " \o e))
            /\ loc' = loc
       \/ \E field \in StatusFieldAnswers :
            /\ calls' = Append(calls, Call("Query", "statusField", vars_, TRUE))
            /\ loc' = [statusField |-> field]
            /\ IF field.ID = ""
               THEN Return(NewToolResultError("project does not have a Status field"))
               ELSE Return(NewToolResultText(CreateProjectColumn_result(field.ID, request)))
    /\ UNCHANGED <<tool, request, clientErr, acquired>>

----------------------------------------------------------------------------
(* update_project_column, delete_project_column, reorder_project_columns,  *)
(* get_project_column: no client is acquired.                              *)

UpdateProjectColumn_strField(r, p) ==
    IF r[p].tag = "str" /\ r[p].v # "" THEN p :> r[p].v ELSE <<>>

UpdateProjectColumn_updates(r) ==
    ("column_id" :> RequiredParam(r, "column_id", "str").value)
      @@ UpdateProjectColumn_strField(r, "name")
      @@ UpdateProjectColumn_strField(r, "description")
      @@ (IF r["limit"].tag = "num" THEN "limit" :> r["limit"].v ELSE <<>>)
      @@ UpdateProjectColumn_strField(r, "color")

UpdateProjectColumn ==
    \E r \in [column_id   : {Absent, Str("O_1")},
              name        : {Absent, Str(""), Str("Review")},
              description : {Absent, Str("d")},
              limit       : {Absent, Num(5), Str("5")},
              color       : {Absent, Str("ff0000")}],
       ce \in BOOLEAN :
        /\ Begin("UpdateProjectColumn", r, ce)
        /\ loc' = NoLocals
        /\ acquired' = 0
        /\ Return(
               IF RequiredParam(r, "column_id", "str").err # ""
               THEN NewToolResultError(RequiredParam(r, "column_id", "str").err)
               ELSE NewToolResultText(
                       [column_id |-> RequiredParam(r, "column_id", "str").value,
                        updates   |-> UpdateProjectColumn_updates(r),
                        message   |-> "Column update request submitted. Note: GitHub Projects API v2 manages columns as Status field options."]))

DeleteProjectColumn ==
    \E r \in [column_id     : {Absent, Str("O_1"), Num(1)},
              archive_cards : {Absent, Bool(TRUE), Bool(FALSE)}],
       ce \in BOOLEAN :
        /\ Begin("DeleteProjectColumn", r, ce)
        /\ loc' = NoLocals
        /\ acquired' = 0
        /\ Return(
               IF RequiredParam(r, "column_id", "str").err # ""
               THEN NewToolResultError(RequiredParam(r, "column_id", "str").err)
               ELSE NewToolResultText(
                       [column_id     |-> RequiredParam(r, "column_id", "str").value,
                        archive_cards |-> OptionalParam(r, "archive_cards", "bool"),
                        message       |-> "Column deletion request submitted. Note: GitHub Projects API v2 manages columns as Status field options."]))

ReorderProjectColumns ==
    \E r \in [board_id     : {Absent, Str("PVT_1")},
              column_order : {Absent, Str("O_1"), Arr(<<>>), Arr(<<Str("O_2"), Str("O_1")>>),
                  Arr(<<Str("O_1"), Num(2)>>)}],
       ce \in BOOLEAN :
        /\ Begin("ReorderProjectColumns", r, ce)
        /\ loc' = NoLocals
        /\ acquired' = 0
        /\ Return(
               IF RequiredParam(r, "board_id", "str").err # ""
               THEN NewToolResultError(RequiredParam(r, "board_id", "str").err)
               ELSE IF r["column_order"].tag = "absent"
               THEN NewToolResultError("missing required parameter: column_order")
               ELSE IF r["column_order"].tag # "arr"
               THEN NewToolResultError("column_order must be an array")
               ELSE IF \E i \in DOMAIN r["column_order"].v : r["column_order"].v[i].tag # "str"
               THEN NewToolResultError("column_order must contain string IDs")
               ELSE NewToolResultText(
                       [board_id     |-> RequiredParam(r, "board_id", "str").value,
                        column_order |-> [i \in DOMAIN r["column_order"].v |-> r["column_order"].v[i].v],
                        message      |-> "Column reorder request submitted. Note: GitHub Projects API v2 manages columns as Status field options with specific ordering."]))

GetProjectColumn ==
    \E r \in [column_id : {Absent, Str("O_1"), Num(1)}],
       ce \in BOOLEAN :
        /\ Begin("GetProjectColumn", r, ce)
        /\ loc' = NoLocals
        /\ acquired' = 0
        /\ Return(
               IF RequiredParam(r, "column_id", "str").err # ""
               THEN NewToolResultError(RequiredParam(r, "column_id", "str").err)
               ELSE NewToolResultText(
                       [column_id |-> RequiredParam(r, "column_id", "str").value,
                        message   |-> "Column details retrieved. Note: GitHub Projects API v2 manages columns as Status field options.",
                        info      |-> "Use list_project_columns to get all columns with their current state."]))

----------------------------------------------------------------------------
(* list_project_columns                                                    *)

\* The Status option ID of each fetched item, "" for an item without one.
ItemOptionIDs == {"", "O_1", "O_2", "O_9"}

ListProjectColumns_Params(r) ==
    IF RequiredParam(r, "board_id", "str").err # ""
    THEN NewToolResultError(RequiredParam(r, "board_id", "str").err)
    ELSE NoResult

ListProjectColumns ==
    \E r \in [board_id : {Absent, Str("PVT_1"), Num(1)}],
       ce \in BOOLEAN :
        LET early == ListProjectColumns_Params(r) IN
        /\ Begin("ListProjectColumns", r, ce)
        /\ loc' = NoLocals
        /\ IF early.kind # "none"
           THEN acquired' = 0 /\ Return(early)
           ELSE /\ acquired' = 1
                /\ IF ce
                   THEN Return(GoError("failed to get GitHub GraphQL client"))
                   ELSE Goto("ListProjectColumns_query")

\* ListProjectColumns_columnCounts counting every item that has a Status
\* value, whatever its option.
ListProjectColumns_columnCounts_anyOption(items, id) ==
    Cardinality({i \in DOMAIN items : items[i] # ""})

\* columnCounts[id]: the number of items whose Status option ID is id; the
\* empty option ID is not counted.
ListProjectColumns_columnCounts(items, id) ==
    Cardinality({i \in DOMAIN items : items[i] # "" /\ items[i] = id})

ListProjectColumns_columns(options, items) ==
    [i \in DOMAIN options |->
        [id          |-> options[i].ID,
         name        |-> options[i].Name,
         description |-> options[i].Description,
         color       |-> options[i].Color,
         position    |-> i - 1,
         item_count  |-> ListProjectColumns_columnCounts(items, options[i].ID)]]

ListProjectColumns_result(r, statusField, items, totalItems) ==
    [board_id    |-> RequiredParam(r, "board_id", "str").value,
     field_id    |-> statusField.ID,
     field_name  |-> statusField.Name,
     columns     |-> ListProjectColumns_columns(statusField.Options, items),
     total_count |-> Len(statusField.Options),
     total_items |-> totalItems]

ListProjectColumns_query ==
    /\ pc = "ListProjectColumns_query"
    /\ LET vars_ == [id |-> RequiredParam(request, "board_id", "str").value] IN
       \/ \E e \in ErrTexts :
            /\ calls' = Append(calls, Call("Query", "statusFieldAndItems", vars_, FALSE))
            /\ Return(NewToolResultError("failed to list project columns: " \o e))
            /\ loc' = loc
       \/ \E field \in StatusFieldAnswers, items \in SeqsUpTo(ItemOptionIDs, MaxNodes) :
            /\ calls' = Append(calls, Call("Query", "statusFieldAndItems", vars_, TRUE))
            /\ loc' = [statusField |-> field, items |-> items]
            /\ Return(NewToolResultText(
                   ListProjectColumns_result(request, field, items, Len(items))))
    /\ UNCHANGED <<tool, request, clientErr, acquired>>

----------------------------------------------------------------------------
(* The card tools that make no client call: add_card_to_project,           *)
(* move_project_card, update_project_card, remove_card_from_project and    *)
(* bulk_move_cards as AddCardToProjectSimple, ..., BulkMoveCardsSimple.    *)

\* Largest number of card IDs in a bulk request of the model.
MaxCards == 3

CardIDs == {"PVTI_1", "PVTI_2"}
CardIDArrays ==
    {Arr([i \in DOMAIN ids |-> Str(ids[i])]) : ids \in SeqsUpTo(CardIDs, MaxCards)}
FieldMaps ==
    {<<>>,
     "Title" :> Str("x"),
     ("Title" :> Str("x")) @@ ("Nope" :> Num(1)),
     ("" :> Str("z")) @@ ("Status" :> Str("Done")),
     ("Status" :> Bool(TRUE)) @@ ("Nope" :> Str("y")) @@ ("Points" :> Num(3))}

AddCardToProjectSimple ==
    \E r \in [board_id   : {Absent, Str("PVT_1")},
              content_id : {Absent, Str("I_1"), Num(1)},
              column_id  : {Absent, Str("O_1")}],
       ce \in BOOLEAN :
        /\ Begin("AddCardToProjectSimple", r, ce)
        /\ loc' = NoLocals
        /\ acquired' = 0
        /\ Return(
               IF RequiredParam(r, "board_id", "str").err # ""
               THEN NewToolResultError(RequiredParam(r, "board_id", "str").err)
               ELSE IF RequiredParam(r, "content_id", "str").err # ""
               THEN NewToolResultError(RequiredParam(r, "content_id", "str").err)
               ELSE NewToolResultText(
                       [board_id   |-> RequiredParam(r, "board_id", "str").value,
                        content_id |-> RequiredParam(r, "content_id", "str").value,
                        message    |-> "Card addition initiated. Note: GitHub Projects API v2 mutations require specific GraphQL implementation."]
                       @@ (IF OptionalParam(r, "column_id", "str") # ""
                           THEN [column_id |-> OptionalParam(r, "column_id", "str")]
                           ELSE <<>>)))

MoveProjectCardSimple ==
    \E r \in [card_id   : {Absent, Str("PVTI_1")},
              column_id : {Absent, Str("O_1"), Num(1)},
              position  : {Absent, Str("top")}],
       ce \in BOOLEAN :
        /\ Begin("MoveProjectCardSimple", r, ce)
        /\ loc' = NoLocals
        /\ acquired' = 0
        /\ Return(
               IF RequiredParam(r, "card_id", "str").err # ""
               THEN NewToolResultError(RequiredParam(r, "card_id", "str").err)
               ELSE IF RequiredParam(r, "column_id", "str").err # ""
               THEN NewToolResultError(RequiredParam(r, "column_id", "str").err)
               ELSE NewToolResultText(
                       [card_id   |-> RequiredParam(r, "card_id", "str").value,
                        column_id |-> RequiredParam(r, "column_id", "str").value,
                        position  |-> IF OptionalParam(r, "position", "str") = ""
                                      THEN "bottom" ELSE OptionalParam(r, "position", "str"),
                        message   |-> "Card move operation initiated"]))

UpdateProjectCardSimple ==
    \E r \in [card_id : {Absent, Str("PVTI_1"), Num(1)},
              fields  : {Absent} \cup {Obj(m) : m \in FieldMaps}],
       ce \in BOOLEAN :
        /\ Begin("UpdateProjectCardSimple", r, ce)
        /\ loc' = NoLocals
        /\ acquired' = 0
        /\ Return(
               IF RequiredParam(r, "card_id", "str").err # ""
               THEN NewToolResultError(RequiredParam(r, "card_id", "str").err)
               ELSE NewToolResultText(
                       [card_id |-> RequiredParam(r, "card_id", "str").value,
                        fields  |-> OptionalParam(r, "fields", "obj"),
                        message |-> "Card update request submitted"]))

RemoveCardFromProjectSimple ==
    \E r \in [card_id : {Absent, Str("PVTI_1"), Num(1)},
              archive : {Absent, Bool(TRUE), Bool(FALSE)}],
       ce \in BOOLEAN :
        /\ Begin("RemoveCardFromProjectSimple", r, ce)
        /\ loc' = NoLocals
        /\ acquired' = 0
        /\ Return(
               IF RequiredParam(r, "card_id", "str").err # ""
               THEN NewToolResultError(RequiredParam(r, "card_id", "str").err)
               ELSE NewToolResultText(
                       [card_id  |-> RequiredParam(r, "card_id", "str").value,
                        archived |-> OptionalParam(r, "archive", "bool"),
                        message  |-> "Card removal/archive initiated"]))

BulkMoveCardsSimple ==
    \E r \in [card_ids         : {Absent, Str("PVTI_1"), Arr(<<Str("PVTI_1"), Num(2)>>)}
                  \cup CardIDArrays,
              target_column_id : {Absent, Str("O_1")}],
       ce \in BOOLEAN :
        /\ Begin("BulkMoveCardsSimple", r, ce)
        /\ loc' = NoLocals
        /\ acquired' = 0
        /\ Return(
               IF OptionalStringArrayParam(r, "card_ids").err # ""
               THEN NewToolResultError(OptionalStringArrayParam(r, "card_ids").err)
               ELSE IF Len(OptionalStringArrayParam(r, "card_ids").value) = 0
               THEN NewToolResultError("card_ids array cannot be empty")
               ELSE IF RequiredParam(r, "target_column_id", "str").err # ""
               THEN NewToolResultError(RequiredParam(r, "target_column_id", "str").err)
               ELSE NewToolResultText(
                       [cards_moved      |-> Len(OptionalStringArrayParam(r, "card_ids").value),
                        target_column_id |-> RequiredParam(r, "target_column_id", "str").value,
                        message          |-> <<"Initiated bulk move of %d cards",
                                               Len(OptionalStringArrayParam(r, "card_ids").value)>>]))

----------------------------------------------------------------------------
(* The card tools with GraphQL calls: MoveProjectCard, UpdateProjectCard,  *)
(* RemoveCardFromProject, BulkMoveCards.  They acquire the client before   *)
(* they read their parameters.                                             *)

\* What the column query resolves a column ID to: the backing field and its
\* project, both empty when the node is no single-select option.
ColumnAnswers ==
    {[fieldID |-> "F_2", projectID |-> "PVT_1"], [fieldID |-> "", projectID |-> ""]}

\* What a handler of this file returns when getGQLClient fails.
CardClientError == NewToolResultError("Failed to get GraphQL client: no client")

MoveProjectCard_Params(r) ==
    IF RequiredParam(r, "card_id", "str").err # ""
    THEN NewToolResultError(RequiredParam(r, "card_id", "str").err)
    ELSE IF RequiredParam(r, "column_id", "str").err # ""
    THEN NewToolResultError(RequiredParam(r, "column_id", "str").err)
    ELSE NoResult

MoveProjectCard ==
    \E r \in [card_id   : {Absent, Str("PVTI_1")},
              column_id : {Absent, Str("O_1"), Num(1)},
              position  : {Absent, Str("top")}],
       ce \in BOOLEAN :
        /\ Begin("MoveProjectCard", r, ce)
        /\ loc' = NoLocals
        /\ acquired' = 1
        /\ IF ce
           THEN Return(CardClientError)
           ELSE IF MoveProjectCard_Params(r).kind # "none"
                THEN Return(MoveProjectCard_Params(r))
                ELSE Goto("MoveProjectCard_query")

MoveProjectCard_query ==
    /\ pc = "MoveProjectCard_query"
    /\ LET vars_ == [columnId |-> RequiredParam(request, "column_id", "str").value] IN
       \/ \E e \in ErrTexts :
            /\ calls' = Append(calls, Call("Query", "column", vars_, FALSE))
            /\ Return(NewToolResultError("Failed to query column: " \o e))
            /\ loc' = loc
       \/ \E ans \in ColumnAnswers :
            /\ calls' = Append(calls, Call("Query", "column", vars_, TRUE))
            /\ loc' = [fieldID |-> ans.fieldID, projectID |-> ans.projectID]
            /\ Goto("MoveProjectCard_mutate")
    /\ UNCHANGED <<tool, request, clientErr, acquired>>

\* MoveInput naming the column itself as the field, not the field the
\* column query resolved.
MoveInput_columnAsField(projectID, cardID, fieldID, columnID) ==
    [projectId |-> projectID, itemId |-> cardID, fieldId |-> columnID,
     value |-> [singleSelectOptionId |-> columnID]]

\* The input of a move: the item's Status field is set to the column's option.
MoveInput(projectID, cardID, fieldID, columnID) ==
    [projectId |-> projectID, itemId |-> cardID, fieldId |-> fieldID,
     value |-> [singleSelectOptionId |-> columnID]]

\* The field values of the moved item as the mutation returns them.
MovedFieldValues ==
    {<<>>,
     <<[FieldID |-> "F_1", OptionName |-> ""], [FieldID |-> "F_2", OptionName |-> "Todo"]>>,
     <<[FieldID |-> "", OptionName |-> "Done"]>>}

\* updatedColumn: the option name of the first field value of field fieldID.
MoveProjectCard_updatedColumn(nodes, fieldID) ==
    IF \E i \in DOMAIN nodes : nodes[i].FieldID = fieldID
    THEN nodes[CHOOSE i \in DOMAIN nodes :
                  /\ nodes[i].FieldID = fieldID
                  /\ \A j \in 1..(i - 1) : nodes[j].FieldID # fieldID].OptionName
    ELSE ""

MoveProjectCard_result(r, projectID, updatedColumn) ==
    [success     |-> TRUE,
     card_id     |-> RequiredParam(r, "card_id", "str").value,
     column_id   |-> RequiredParam(r, "column_id", "str").value,
     column_name |-> updatedColumn,
     project_id  |-> projectID,
     message     |-> "Card moved successfully"]

MoveProjectCard_mutate ==
    /\ pc = "MoveProjectCard_mutate"
    /\ LET input == MoveInput(loc.projectID, RequiredParam(request, "card_id", "str").value,
                              loc.fieldID, RequiredParam(request, "column_id", "str").value) IN
       \/ \E e \in ErrTexts :
            /\ calls' = Append(calls, Call("Mutate", "updateProjectV2ItemFieldValue", input, FALSE))
            /\ Return(NewToolResultError("Failed to move card: " \o e))
       \/ \E nodes \in MovedFieldValues :
            /\ calls' = Append(calls, Call("Mutate", "updateProjectV2ItemFieldValue", input, TRUE))
            /\ Return(NewToolResultText(MoveProjectCard_result(request, loc.projectID,
                          MoveProjectCard_updatedColumn(nodes, loc.fieldID))))
    /\ UNCHANGED <<tool, request, clientErr, acquired, loc>>

----------------------------------------------------------------------------
(* remove_card_from_project (RemoveCardFromProject)                        *)

RemoveCardFromProject_Params(r) ==
    IF RequiredParam(r, "card_id", "str").err # ""
    THEN NewToolResultError(RequiredParam(r, "card_id", "str").err)
    ELSE NoResult

\* RemoveCardFromProject deleting whatever the archive flag says.
RemoveCardFromProject_alwaysDelete ==
    \E r \in [card_id : {Absent, Str("PVTI_1"), Num(1)},
              archive : {Absent, Bool(TRUE), Bool(FALSE)}],
       ce \in BOOLEAN :
        /\ Begin("RemoveCardFromProject", r, ce)
        /\ loc' = NoLocals
        /\ acquired' = 1
        /\ IF ce
           THEN Return(CardClientError)
           ELSE IF RemoveCardFromProject_Params(r).kind # "none"
                THEN Return(RemoveCardFromProject_Params(r))
                ELSE Goto("RemoveCardFromProject_delete")

RemoveCardFromProject ==
    \E r \in [card_id : {Absent, Str("PVTI_1"), Num(1)},
              archive : {Absent, Bool(TRUE), Bool(FALSE)}],
       ce \in BOOLEAN :
        /\ Begin("RemoveCardFromProject", r, ce)
        /\ loc' = NoLocals
        /\ acquired' = 1
        /\ IF ce
           THEN Return(CardClientError)
           ELSE IF RemoveCardFromProject_Params(r).kind # "none"
                THEN Return(RemoveCardFromProject_Params(r))
                ELSE IF OptionalParam(r, "archive", "bool")
                     THEN Goto("RemoveCardFromProject_archive")
                     ELSE Goto("RemoveCardFromProject_delete")

RemoveCardFromProject_archive ==
    /\ pc = "RemoveCardFromProject_archive"
    /\ LET cardID == RequiredParam(request, "card_id", "str").value IN
       \/ \E e \in ErrTexts :
            /\ calls' = Append(calls, Call("Mutate", "archiveProjectV2Item", [itemId |-> cardID], FALSE))
            /\ Return(NewToolResultError("Failed to archive card: " \o e))
       \/ /\ calls' = Append(calls, Call("Mutate", "archiveProjectV2Item", [itemId |-> cardID], TRUE))
          /\ Return(NewToolResultText([success |-> TRUE, card_id |-> cardID, archived |-> TRUE,
                                       message |-> "Card archived successfully"]))
    /\ UNCHANGED <<tool, request, clientErr, acquired, loc>>

RemoveCardFromProject_delete ==
    /\ pc = "RemoveCardFromProject_delete"
    /\ LET cardID == RequiredParam(request, "card_id", "str").value IN
       \/ \E e \in ErrTexts :
            /\ calls' = Append(calls, Call("Mutate", "deleteProjectV2Item", [itemId |-> cardID], FALSE))
            /\ Return(NewToolResultError("Failed to delete card: " \o e))
       \/ \E deletedItemId \in CardIDs :
            /\ calls' = Append(calls, Call("Mutate", "deleteProjectV2Item", [itemId |-> cardID], TRUE))
            /\ Return(NewToolResultText([success |-> TRUE, card_id |-> deletedItemId, deleted |-> TRUE,
                                         message |-> "Card removed from project successfully"]))
    /\ UNCHANGED <<tool, request, clientErr, acquired, loc>>

----------------------------------------------------------------------------
(* bulk_move_cards (BulkMoveCards)                                         *)

\* card_ids and target_column_id: the result returned early, or NoResult.
BulkMoveCards_Params(r) ==
    IF OptionalStringArrayParam(r, "card_ids").err # ""
    THEN NewToolResultError(OptionalStringArrayParam(r, "card_ids").err)
    ELSE IF Len(OptionalStringArrayParam(r, "card_ids").value) = 0
    THEN NewToolResultError("card_ids array cannot be empty")
    ELSE IF RequiredParam(r, "target_column_id", "str").err # ""
    THEN NewToolResultError(RequiredParam(r, "target_column_id", "str").err)
    ELSE NoResult

BulkMoveCards ==
    \E r \in [card_ids         : {Absent, Str("PVTI_1"), Arr(<<Str("PVTI_1"), Num(2)>>)}
                  \cup CardIDArrays,
              target_column_id : {Absent, Str("O_1")}],
       ce \in BOOLEAN :
        /\ Begin("BulkMoveCards", r, ce)
        /\ loc' = NoLocals
        /\ acquired' = 1
        /\ IF ce
           THEN Return(CardClientError)
           ELSE IF BulkMoveCards_Params(r).kind # "none"
                THEN Return(BulkMoveCards_Params(r))
                ELSE Goto("BulkMoveCards_query")

BulkMoveCards_query ==
    /\ pc = "BulkMoveCards_query"
    /\ LET vars_ == [columnId |-> RequiredParam(request, "target_column_id", "str").value] IN
       \/ \E e \in ErrTexts :
            /\ calls' = Append(calls, Call("Query", "column", vars_, FALSE))
            /\ Return(NewToolResultError("Failed to query column: " \o e))
            /\ loc' = loc
       \/ \E ans \in ColumnAnswers :
            /\ calls' = Append(calls, Call("Query", "column", vars_, TRUE))
            /\ loc' = [cardIDs   |-> OptionalStringArrayParam(request, "card_ids").value,
                       fieldID   |-> ans.fieldID,
                       projectID |-> ans.projectID,
                       results   |-> <<>>]
            /\ Goto("BulkMoveCards_mutate")
    /\ UNCHANGED <<tool, request, clientErr, acquired>>

\* BulkMoveCards_entry that drops the mutation's error.
BulkMoveCards_entry_ignoringError(cardID, err) ==
    [card_id |-> cardID, status |-> "moved"]

\* The results entry appended for one card: err is the mutation's error text,
\* "" for nil.
BulkMoveCards_entry(cardID, err) ==
    IF err # ""
    THEN [card_id |-> cardID, status |-> "failed", error |-> err]
    ELSE [card_id |-> cardID, status |-> "moved"]

\* successCount: the number of results entries with status "moved".
BulkMoveCards_successCount(results) ==
    Cardinality({i \in DOMAIN results : results[i].status = "moved"})

\* BulkMoveCards_result with success meaning that every card moved.
BulkMoveCards_result_allOrNothing(cardIDs, columnID, results) ==
    [success          |-> BulkMoveCards_successCount(results) = Len(cardIDs),
     total_cards      |-> Len(cardIDs),
     moved_count      |-> BulkMoveCards_successCount(results),
     failed_count     |-> Len(cardIDs) - BulkMoveCards_successCount(results),
     target_column_id |-> columnID,
     results          |-> results,
     message          |-> <<"Moved %d of %d cards successfully",
                            BulkMoveCards_successCount(results), Len(cardIDs)>>]

BulkMoveCards_result(cardIDs, columnID, results) ==
    [success          |-> BulkMoveCards_successCount(results) > 0,
     total_cards      |-> Len(cardIDs),
     moved_count      |-> BulkMoveCards_successCount(results),
     failed_count     |-> Len(cardIDs) - BulkMoveCards_successCount(results),
     target_column_id |-> columnID,
     results          |-> results,
     message          |-> <<"Moved %d of %d cards successfully",
                            BulkMoveCards_successCount(results), Len(cardIDs)>>]

\* BulkMoveCards_mutate leaving the loop at the first failed mutation.
BulkMoveCards_mutate_abortOnError ==
    /\ pc = "BulkMoveCards_mutate"
    /\ LET i        == Len(loc.results) + 1
           columnID == RequiredParam(request, "target_column_id", "str").value
           input    == MoveInput(loc.projectID, loc.cardIDs[i], loc.fieldID, columnID)
       IN  \E err \in ErrTexts \cup {""} :
             LET results == Append(loc.results, BulkMoveCards_entry(loc.cardIDs[i], err)) IN
             /\ calls' = Append(calls, Call("Mutate", "updateProjectV2ItemFieldValue",
                                            input, err = ""))
             /\ loc' = [loc EXCEPT !.results = results]
             /\ IF i < Len(loc.cardIDs) /\ err = ""
                THEN Goto("BulkMoveCards_mutate")
                ELSE Return(NewToolResultText(
                         BulkMoveCards_result(loc.cardIDs, columnID, results)))
    /\ UNCHANGED <<tool, request, clientErr, acquired>>

\* One iteration of the loop over cardIDs; the last one is followed by the
\* count and the return.
BulkMoveCards_mutate ==
    /\ pc = "BulkMoveCards_mutate"
    /\ LET i        == Len(loc.results) + 1
           columnID == RequiredParam(request, "target_column_id", "str").value
           input    == MoveInput(loc.projectID, loc.cardIDs[i], loc.fieldID, columnID)
       IN  \E err \in ErrTexts \cup {""} :
             LET results == Append(loc.results, BulkMoveCards_entry(loc.cardIDs[i], err)) IN
             /\ calls' = Append(calls, Call("Mutate", "updateProjectV2ItemFieldValue",
                                            input, err = ""))
             /\ loc' = [loc EXCEPT !.results = results]
             /\ IF i < Len(loc.cardIDs)
                THEN Goto("BulkMoveCards_mutate")
                ELSE Return(NewToolResultText(
                         BulkMoveCards_result(loc.cardIDs, columnID, results)))
    /\ UNCHANGED <<tool, request, clientErr, acquired>>

----------------------------------------------------------------------------
(* update_project_card (UpdateProjectCard)                                 *)

ItemAnswers ==
    \* Field nodes of the item's project: ProjectV2Field and
    \* ProjectV2SingleSelectField branches, the other branch zero.
    LET NoBranch == [ID |-> "", Name |-> ""]
        ItemFieldTitle  == [ProjectV2Field |-> [ID |-> "F_1", Name |-> "Title"],
                            ProjectV2SingleSelectField |-> NoBranch]
        ItemFieldStatus == [ProjectV2Field |-> NoBranch,
                            ProjectV2SingleSelectField |-> [ID |-> "F_2", Name |-> "Status"]]
        ItemFieldPoints == [ProjectV2Field |-> [ID |-> "F_4", Name |-> "Points"],
                            ProjectV2SingleSelectField |-> NoBranch]
        ItemFieldOther  == [ProjectV2Field |-> NoBranch, ProjectV2SingleSelectField |-> NoBranch]
    IN  [projectID : {"PVT_1"},
         fields    : {<<>>, <<ItemFieldTitle, ItemFieldStatus>>,
                      <<ItemFieldOther, ItemFieldStatus, ItemFieldPoints>>}]

UpdateProjectCard_Params(r) ==
    IF RequiredParam(r, "card_id", "str").err # ""
    THEN NewToolResultError(RequiredParam(r, "card_id", "str").err)
    ELSE NoResult

UpdateProjectCard ==
    \E r \in [card_id : {Absent, Str("PVTI_1"), Num(1)},
              fields  : {Absent} \cup {Obj(m) : m \in FieldMaps}],
       ce \in BOOLEAN :
        /\ Begin("UpdateProjectCard", r, ce)
        /\ loc' = NoLocals
        /\ acquired' = 1
        /\ IF ce
           THEN Return(CardClientError)
           ELSE IF UpdateProjectCard_Params(r).kind # "none"
                THEN Return(UpdateProjectCard_Params(r))
                ELSE Goto("UpdateProjectCard_query")

UpdateProjectCard_result(r, projectID, updates) ==
    [success    |-> TRUE,
     card_id    |-> RequiredParam(r, "card_id", "str").value,
     project_id |-> projectID,
     updates    |-> updates,
     message    |-> <<"Updated %d fields", Len(updates)>>]

UpdateProjectCard_query ==
    /\ pc = "UpdateProjectCard_query"
    /\ LET vars_  == [itemId |-> RequiredParam(request, "card_id", "str").value]
           fields == OptionalParam(request, "fields", "obj") IN
       \/ \E e \in ErrTexts :
            /\ calls' = Append(calls, Call("Query", "item", vars_, FALSE))
            /\ Return(NewToolResultError("Failed to query item: " \o e))
            /\ loc' = loc
       \/ \E ans \in ItemAnswers :
            /\ calls' = Append(calls, Call("Query", "item", vars_, TRUE))
            /\ loc' = [projectID |-> ans.projectID, fieldNodes |-> ans.fields,
                       remaining |-> DOMAIN fields, updates |-> <<>>]
            /\ IF DOMAIN fields = {}
               THEN Return(NewToolResultText(
                        UpdateProjectCard_result(request, ans.projectID, <<>>)))
               ELSE Goto("UpdateProjectCard_field")
    /\ UNCHANGED <<tool, request, clientErr, acquired>>

\* Whether a field node carries the name fieldName in either branch.
UpdateProjectCard_matches(field, fieldName) ==
    field.ProjectV2Field.Name = fieldName \/ field.ProjectV2SingleSelectField.Name = fieldName

\* fieldID: the ID of the first field node named fieldName, "" when none is.
UpdateProjectCard_fieldID(nodes, fieldName) ==
    IF \E i \in DOMAIN nodes : UpdateProjectCard_matches(nodes[i], fieldName)
    THEN LET i == CHOOSE k \in DOMAIN nodes :
                     /\ UpdateProjectCard_matches(nodes[k], fieldName)
                     /\ \A j \in 1..(k - 1) : ~UpdateProjectCard_matches(nodes[j], fieldName)
         IN  IF nodes[i].ProjectV2Field.ID # ""
             THEN nodes[i].ProjectV2Field.ID
             ELSE nodes[i].ProjectV2SingleSelectField.ID
    ELSE ""

\* The value of the mutation input for a request value.
UpdateProjectCard_value(v) ==
    CASE v.tag = "str"  -> [text |-> v.v]
      [] v.tag = "num"  -> [number |-> v.v]
      [] v.tag = "bool" -> [text |-> IF v.v THEN "true" ELSE "false"]
      [] OTHER          -> v.v

\* UpdateProjectCard_entry reporting every field as updated.
UpdateProjectCard_entry_alwaysUpdated(fieldName, value, err) ==
    [field |-> fieldName, value |-> value, status |-> "updated"]

\* The updates entry for one field: err is the mutation's error text.
UpdateProjectCard_entry(fieldName, value, err) ==
    IF err = ""
    THEN [field |-> fieldName, value |-> value, status |-> "updated"]
    ELSE [field |-> fieldName, value |-> value, status |-> "failed", error |-> err]

\* One iteration of the loop over the fields map, whose order Go leaves open;
\* the last one is followed by the return.
UpdateProjectCard_field ==
    /\ pc = "UpdateProjectCard_field"
    /\ \E fieldName \in loc.remaining :
         LET fields  == OptionalParam(request, "fields", "obj")
             cardID  == RequiredParam(request, "card_id", "str").value
             fieldID == UpdateProjectCard_fieldID(loc.fieldNodes, fieldName)
             input   == [projectId |-> loc.projectID, itemId |-> cardID, fieldId |-> fieldID,
                         value |-> UpdateProjectCard_value(fields[fieldName])]
             rest    == loc.remaining \ {fieldName}
             Finish(updates) ==
                /\ loc' = [loc EXCEPT !.remaining = rest, !.updates = updates]
                /\ IF rest = {}
                   THEN Return(NewToolResultText(
                            UpdateProjectCard_result(request, loc.projectID, updates)))
                   ELSE Goto("UpdateProjectCard_field")
         IN  \/ /\ fieldID = ""
                /\ calls' = calls
                /\ Finish(loc.updates)
             \/ /\ fieldID # ""
                /\ \E err \in ErrTexts \cup {""} :
                     /\ calls' = Append(calls, Call("Mutate", "updateProjectV2ItemFieldValue",
                                                    input, err = ""))
                     /\ Finish(Append(loc.updates,
                                      UpdateProjectCard_entry(fieldName, fields[fieldName], err)))
    /\ UNCHANGED <<tool, request, clientErr, acquired>>

----------------------------------------------------------------------------
(* list_project_cards                                                      *)

ListItems ==
    \* Field values of an item: only the branch named by TypeName is populated.
    LET NoSelect == [ID |-> "", Name |-> "", Description |-> "", Color |-> ""]
        ListValue(typeName, fieldName, select, text, number, date) ==
            [TypeName |-> typeName, FieldName |-> fieldName, SingleSelectValue |-> select,
             TextValue |-> text, NumberValue |-> number, DateValue |-> date]
        StatusTodo ==
            ListValue("ProjectV2ItemFieldSingleSelectValue", "Status",
                      [ID |-> "O_1", Name |-> "Todo", Description |-> "", Color |-> "GRAY"], "", 0, "")
        StatusDone ==
            ListValue("ProjectV2ItemFieldSingleSelectValue", "Status",
                      [ID |-> "O_2", Name |-> "Done", Description |-> "finished", Color |-> "GREEN"], "", 0, "")
        PriorityHigh ==
            ListValue("ProjectV2ItemFieldSingleSelectValue", "Priority",
                      [ID |-> "O_1", Name |-> "High", Description |-> "", Color |-> "RED"], "", 0, "")
        TitleText == ListValue("ProjectV2ItemFieldTextValue", "Title", NoSelect, "fix it", 0, "")
        PointsNumber == ListValue("ProjectV2ItemFieldNumberValue", "Points", NoSelect, "", 3, "")
        DueDate == ListValue("ProjectV2ItemFieldDateValue", "Due", NoSelect, "", 0, "2024-07-01")
        SprintIteration == ListValue("ProjectV2ItemFieldIterationValue", "Sprint", NoSelect, "", 0, "")
        \* Values that carry data in a branch their TypeName does not name.
        StrayText ==
            ListValue("ProjectV2ItemFieldTextValue", "Notes",
                      [ID |-> "O_2", Name |-> "Done", Description |-> "", Color |-> "GREEN"],
                      "note", 5, "2024-01-01")
        StrayUnknown ==
            ListValue("ProjectV2ItemFieldIterationValue", "Sprint",
                      [ID |-> "O_2", Name |-> "Done", Description |-> "", Color |-> "GREEN"],
                      "stray", 5, "2024-01-01")

        \* Content of an item: only the branch named by TypeName is populated.
        NoListIssue ==
            [ID |-> "", Number |-> 0, Title |-> "", State |-> "", URL |-> "",
             Labels |-> <<>>, Assignees |-> <<>>]
        NoListPullRequest ==
            [ID |-> "", Number |-> 0, Title |-> "", State |-> "", URL |-> "", IsDraft |-> FALSE,
             ReviewDecision |-> "", Labels |-> <<>>, Assignees |-> <<>>]
        ListIssueContent ==
            [TypeName |-> "Issue",
             Issue |-> [ID |-> "I_1", Number |-> 7, Title |-> "bug", State |-> "OPEN",
                        URL |-> "https://github.com/o/r/issues/7",
                        Labels |-> <<[Name |-> "bug", Color |-> "d73a4a"]>>,
                        Assignees |-> <<[Login |-> "u", AvatarURL |-> "https://avatars/u"]>>],
             PullRequest |-> NoListPullRequest]
        ListPullRequestContent ==
            [TypeName |-> "PullRequest",
             Issue |-> NoListIssue,
             PullRequest |-> [ID |-> "PR_1", Number |-> 8, Title |-> "fix", State |-> "MERGED",
                              URL |-> "https://github.com/o/r/pull/8", IsDraft |-> TRUE,
                              ReviewDecision |-> "APPROVED", Labels |-> <<>>,
                              Assignees |-> <<[Login |-> "v", AvatarURL |-> "https://avatars/v"]>>]]
        ListDraftContent ==
            [TypeName |-> "DraftIssue", Issue |-> NoListIssue, PullRequest |-> NoListPullRequest]
        \* Contents that carry data in a branch TypeName does not name.
        ListStrayDraft ==
            [ListIssueContent EXCEPT !.TypeName = "DraftIssue"]
        ListStrayIssue ==
            [ListIssueContent EXCEPT !.PullRequest = ListPullRequestContent.PullRequest]
    IN  {[ID |-> "PVTI_1", Archived |-> FALSE, CreatedAt |-> 1, UpdatedAt |-> 2,
          FieldValues |-> <<TitleText, StatusTodo, PointsNumber>>, Content |-> ListIssueContent],
         [ID |-> "PVTI_2", Archived |-> TRUE, CreatedAt |-> 1, UpdatedAt |-> 1,
          FieldValues |-> <<StatusDone, StatusTodo, DueDate>>, Content |-> ListPullRequestContent],
         [ID |-> "PVTI_3", Archived |-> FALSE, CreatedAt |-> 0, UpdatedAt |-> 0,
          FieldValues |-> <<PriorityHigh, SprintIteration>>, Content |-> ListDraftContent],
         [ID |-> "PVTI_4", Archived |-> TRUE, CreatedAt |-> 2, UpdatedAt |-> 2,
          FieldValues |-> <<>>, Content |-> ListIssueContent],
         [ID |-> "PVTI_5", Archived |-> FALSE, CreatedAt |-> 1, UpdatedAt |-> 2,
          FieldValues |-> <<StrayText, StrayUnknown>>, Content |-> ListStrayDraft],
         [ID |-> "PVTI_6", Archived |-> FALSE, CreatedAt |-> 1, UpdatedAt |-> 2,
          FieldValues |-> <<StatusTodo>>, Content |-> ListStrayIssue]}

ListProjectCards_Params(r) ==
    IF RequiredParam(r, "board_id", "str").err # ""
    THEN NewToolResultError(RequiredParam(r, "board_id", "str").err)
    ELSE NoResult

\* ListProjectCards_limit without the cap.
ListProjectCards_limit_uncapped(r) ==
    OptionalIntParamWithDefault(r, "limit", DefaultLimit)

\* limit, defaulting to 20 and capped at 100.
ListProjectCards_limit(r) ==
    IF OptionalIntParamWithDefault(r, "limit", DefaultLimit) > MaxLimit
    THEN MaxLimit
    ELSE OptionalIntParamWithDefault(r, "limit", DefaultLimit)

ListProjectCards ==
    \E r \in [board_id         : {Absent, Str("PVT_1")},
              column_id        : {Absent, Str("O_1")},
              content_type     : {Absent, Str("issue"), Str("pull_request"), Str("draft")},
              include_archived : {Absent, Bool(TRUE), Bool(FALSE)},
              limit            : {Absent, Num(1), Num(150)},
              after            : {Absent, Str("cursor")}],
       ce \in BOOLEAN :
        LET early == ListProjectCards_Params(r) IN
        /\ Begin("ListProjectCards", r, ce)
        /\ IF early.kind # "none"
           THEN acquired' = 0 /\ Return(early) /\ loc' = NoLocals
           ELSE /\ acquired' = 1
                /\ loc' = [columnID        |-> OptionalParam(r, "column_id", "str"),
                           contentType     |-> OptionalParam(r, "content_type", "str"),
                           includeArchived |-> OptionalParam(r, "include_archived", "bool"),
                           limit           |-> ListProjectCards_limit(r),
                           after           |-> OptionalParam(r, "after", "str")]
                /\ IF ce
                   THEN Return(GoError("failed to get GitHub GraphQL client"))
                   ELSE Goto("ListProjectCards_query")

\* The query variables: after is sent only when non-empty.
ListProjectCards_variables(r, l) ==
    [id |-> RequiredParam(r, "board_id", "str").value, limit |-> l.limit,
     includeArchived |-> l.includeArchived]
    @@ (IF l.after # "" THEN [after |-> l.after] ELSE <<>>)

\* Whether TypeName is one of the field-value variants the list flattens.
ListProjectCards_known(typeName) ==
    typeName \in {"ProjectV2ItemFieldSingleSelectValue", "ProjectV2ItemFieldTextValue",
                  "ProjectV2ItemFieldNumberValue", "ProjectV2ItemFieldDateValue"}

\* The flattened value of one field value, taken from the branch TypeName names.
ListProjectCards_value(fv) ==
    CASE fv.TypeName = "ProjectV2ItemFieldSingleSelectValue" ->
            [id |-> fv.SingleSelectValue.ID, name |-> fv.SingleSelectValue.Name,
             description |-> fv.SingleSelectValue.Description,
             color |-> fv.SingleSelectValue.Color]
      [] fv.TypeName = "ProjectV2ItemFieldTextValue"   -> fv.TextValue
      [] fv.TypeName = "ProjectV2ItemFieldNumberValue" -> fv.NumberValue
      [] fv.TypeName = "ProjectV2ItemFieldDateValue"   -> fv.DateValue

\* The index of the last node of nodes satisfying P.
LastIndex(nodes, P(_)) ==
    CHOOSE i \in DOMAIN nodes : P(nodes[i]) /\ \A j \in (i + 1)..Len(nodes) : ~P(nodes[j])

\* fields: field name -> flattened value; a later value of a name replaces an
\* earlier one.
ListProjectCards_fields(nodes) ==
    [name \in {nodes[i].FieldName : i \in {k \in DOMAIN nodes :
                                              ListProjectCards_known(nodes[k].TypeName)}} |->
        LET IsIt(fv) == fv.FieldName = name /\ ListProjectCards_known(fv.TypeName)
        IN  ListProjectCards_value(nodes[LastIndex(nodes, IsIt)])]

\* currentColumn: the option ID of the item's last single-select value of the
\* field named Status, "" when it has none.
ListProjectCards_currentColumn(nodes) ==
    LET IsStatus(fv) == /\ fv.TypeName = "ProjectV2ItemFieldSingleSelectValue"
                        /\ fv.FieldName = "Status"
    IN  IF \E i \in DOMAIN nodes : IsStatus(nodes[i])
        THEN nodes[LastIndex(nodes, IsStatus)].SingleSelectValue.ID
        ELSE ""

\* ListProjectCards_skipArchived leaving the archived filter to the server.
ListProjectCards_skipArchived_serverOnly(item, includeArchived) == FALSE
\* Whether an item is skipped by the archived filter.
ListProjectCards_skipArchived(item, includeArchived) ==
    item.Archived /\ ~includeArchived
\* Whether an item is skipped by the content-type filter.
ListProjectCards_skipType(item, contentType) ==
    /\ contentType # ""
    /\ \/ contentType = "issue" /\ item.Content.TypeName # "Issue"
       \/ contentType = "pull_request" /\ item.Content.TypeName # "PullRequest"

\* ListProjectCards_skipColumn letting an item without a Status value pass.
ListProjectCards_skipColumn_keepingUnset(item, columnID) ==
    /\ columnID # ""
    /\ ListProjectCards_currentColumn(item.FieldValues) # ""
    /\ ListProjectCards_currentColumn(item.FieldValues) # columnID
\* Whether an item is skipped by the column filter.
ListProjectCards_skipColumn(item, columnID) ==
    columnID # "" /\ ListProjectCards_currentColumn(item.FieldValues) # columnID
ListProjectCards_keep(item, l) ==
    /\ ~ListProjectCards_skipArchived(item, l.includeArchived)
    /\ ~ListProjectCards_skipType(item, l.contentType)
    /\ ~ListProjectCards_skipColumn(item, l.columnID)

ListProjectCards_labels(nodes) ==
    [i \in DOMAIN nodes |-> [name |-> nodes[i].Name, color |-> nodes[i].Color]]
ListProjectCards_assignees(nodes) ==
    [i \in DOMAIN nodes |-> [login |-> nodes[i].Login, avatar_url |-> nodes[i].AvatarURL]]

\* The content key of a card, present for an Issue or a PullRequest only.
ListProjectCards_content(content) ==
    IF content.TypeName = "Issue"
    THEN [content |-> [id        |-> content.Issue.ID,
                       number    |-> content.Issue.Number,
                       title     |-> content.Issue.Title,
                       state     |-> content.Issue.State,
                       url       |-> content.Issue.URL,
                       labels    |-> ListProjectCards_labels(content.Issue.Labels),
                       assignees |-> ListProjectCards_assignees(content.Issue.Assignees)]]
    ELSE IF content.TypeName = "PullRequest"
    THEN [content |-> [id              |-> content.PullRequest.ID,
                       number          |-> content.PullRequest.Number,
                       title           |-> content.PullRequest.Title,
                       state           |-> content.PullRequest.State,
                       url             |-> content.PullRequest.URL,
                       is_draft        |-> content.PullRequest.IsDraft,
                       review_decision |-> content.PullRequest.ReviewDecision,
                       labels    |-> ListProjectCards_labels(content.PullRequest.Labels),
                       assignees |-> ListProjectCards_assignees(content.PullRequest.Assignees)]]
    ELSE <<>>

ListProjectCards_card(item) ==
    [id         |-> item.ID,
     archived   |-> item.Archived,
     created_at |-> FormatTime(item.CreatedAt),
     updated_at |-> FormatTime(item.UpdatedAt),
     type       |-> item.Content.TypeName,
     fields     |-> ListProjectCards_fields(item.FieldValues)]
    @@ ListProjectCards_content(item.Content)

\* cards: the cards of the items that pass the filters, in the items' order.
RECURSIVE ListProjectCards_cards(_, _)
ListProjectCards_cards(items, l) ==
    IF items = <<>> THEN <<>>
    ELSE (IF ListProjectCards_keep(Head(items), l)
          THEN <<ListProjectCards_card(Head(items))>>
          ELSE <<>>) \o ListProjectCards_cards(Tail(items), l)

ListProjectCards_result(r, l, page) ==
    [board_id    |-> RequiredParam(r, "board_id", "str").value,
     board_title |-> page.Title,
     cards       |-> ListProjectCards_cards(page.Items, l),
     count       |-> Len(ListProjectCards_cards(page.Items, l)),
     total_count |-> page.TotalCount,
     page_info   |-> [end_cursor |-> page.EndCursor, has_next_page |-> page.HasNextPage]]
    @@ (IF l.columnID # "" THEN [filtered_by_column |-> l.columnID] ELSE <<>>)
    @@ (IF l.contentType # "" THEN [filtered_by_type |-> l.contentType] ELSE <<>>)

ListProjectCards_query ==
    /\ pc = "ListProjectCards_query"
    /\ LET vars_ == ListProjectCards_variables(request, loc) IN
       \/ \E e \in ErrTexts :
            /\ calls' = Append(calls, Call("Query", "items", vars_, FALSE))
            /\ Return(NewToolResultError("failed to list project cards: " \o e))
            /\ loc' = loc
       \/ \E items \in SeqsUpTo(ListItems, Min(loc.limit, MaxNodes)) :
            LET page == [Title |-> "a", Items |-> items, TotalCount |-> Len(items) + 1,
                         EndCursor |-> "next", HasNextPage |-> TRUE] IN
            /\ calls' = Append(calls, Call("Query", "items", vars_, TRUE))
            /\ loc' = loc @@ [page |-> page]
            /\ Return(NewToolResultText(ListProjectCards_result(request, loc, page)))
    /\ UNCHANGED <<tool, request, clientErr, acquired>>

----------------------------------------------------------------------------
(* get_project_card                                                        *)

CardAnswers ==
    \* A field value with every branch zero, as deserialization leaves the
    \* branches the response does not carry.
    LET NoValue ==
            [TypeName          |-> "",
             Field             |-> [ID |-> "", Name |-> "", DataType |-> ""],
             SingleSelectValue |-> [ID |-> "", Name |-> "", Description |-> "", Color |-> ""],
             TextValue         |-> "",
             NumberValue       |-> 0,
             DateValue         |-> "",
             IterationValue    |-> [ID |-> "", Title |-> "", StartDate |-> "", Duration |-> 0],
             RepositoryValue   |-> [ID |-> "", Name |-> "", URL |-> "", IsPrivate |-> FALSE],
             UserValue         |-> <<>>,
             LabelValue        |-> <<>>,
             MilestoneValue    |-> [ID |-> "", Title |-> "", Description |-> "", DueOn |-> 0, State |-> ""],
             PullRequestValue  |-> <<>>]

        CardField(id, name, dataType) == [ID |-> id, Name |-> name, DataType |-> dataType]
        CardSelect ==
            [NoValue EXCEPT !.TypeName = "ProjectV2ItemFieldSingleSelectValue",
                            !.Field = CardField("F_2", "Status", "SINGLE_SELECT"),
                            !.SingleSelectValue = [ID |-> "O_1", Name |-> "Todo", Description |-> "",
                                                   Color |-> "GRAY"]]
        CardText ==
            [NoValue EXCEPT !.TypeName = "ProjectV2ItemFieldTextValue",
                            !.Field = CardField("F_1", "Title", "TEXT"), !.TextValue = "fix it"]
        CardNumber ==
            [NoValue EXCEPT !.TypeName = "ProjectV2ItemFieldNumberValue",
                            !.Field = CardField("F_4", "Points", "NUMBER"), !.NumberValue = 3]
        CardDate ==
            [NoValue EXCEPT !.TypeName = "ProjectV2ItemFieldDateValue",
                            !.Field = CardField("F_5", "Due", "DATE"), !.DateValue = "2024-07-01"]
        CardIteration ==
            [NoValue EXCEPT !.TypeName = "ProjectV2ItemFieldIterationValue",
                            !.Field = CardField("F_3", "Sprint", "ITERATION"),
                            !.IterationValue = [ID |-> "IT_1", Title |-> "Sprint 1",
                                                StartDate |-> "2024-07-01", Duration |-> 14]]
        CardRepository ==
            [NoValue EXCEPT !.TypeName = "ProjectV2ItemFieldRepositoryValue",
                            !.Field = CardField("F_6", "Repository", "REPOSITORY"),
                            !.RepositoryValue = [ID |-> "R_1", Name |-> "r",
                                                 URL |-> "https://github.com/o/r", IsPrivate |-> TRUE]]
        CardUsers ==
            [NoValue EXCEPT !.TypeName = "ProjectV2ItemFieldUserValue",
                            !.Field = CardField("F_7", "Assignees", "ASSIGNEES"),
                            !.UserValue = <<[ID |-> "U_1", Login |-> "u", AvatarURL |-> "https://avatars/u"]>>]
        CardLabels ==
            [NoValue EXCEPT !.TypeName = "ProjectV2ItemFieldLabelValue",
                            !.Field = CardField("F_8", "Labels", "LABELS"),
                            !.LabelValue = <<[ID |-> "L_1", Name |-> "bug", Color |-> "d73a4a"]>>]
        CardMilestone(dueOn) ==
            [NoValue EXCEPT !.TypeName = "ProjectV2ItemFieldMilestoneValue",
                            !.Field = CardField("F_9", "Milestone", "MILESTONE"),
                            !.MilestoneValue = [ID |-> "M_1", Title |-> "v1", Description |-> "",
                                                DueOn |-> dueOn, State |-> "OPEN"]]
        CardPullRequests ==
            [NoValue EXCEPT !.TypeName = "ProjectV2ItemFieldPullRequestValue",
                            !.Field = CardField("F_10", "Linked pull requests", "LINKED_PULL_REQUESTS"),
                            !.PullRequestValue = <<[ID |-> "PR_1", Number |-> 8, Title |-> "fix",
                                                    URL |-> "https://github.com/o/r/pull/8"]>>]
        CardUnknown ==
            [NoValue EXCEPT !.TypeName = "ProjectV2ItemFieldReviewerValue",
                            !.Field = CardField("F_11", "Reviewers", "REVIEWERS")]
        \* Values that carry data in a branch their TypeName does not name.
        CardStrayText ==
            [CardSelect EXCEPT !.TypeName = "ProjectV2ItemFieldTextValue",
                               !.Field = CardField("F_12", "Notes", "TEXT"),
                               !.TextValue = "note"]
        CardStrayUnknown ==
            [CardIteration EXCEPT !.TypeName = "ProjectV2ItemFieldReviewerValue",
                                  !.Field = CardField("F_11", "Reviewers", "REVIEWERS"),
                                  !.TextValue = "stray"]

        \* Content of an item: only the branch named by TypeName is populated.
        NoIssue ==
            [ID |-> "", Number |-> 0, Title |-> "", Body |-> "", State |-> "", StateReason |-> "",
             URL |-> "", CreatedAt |-> 0, UpdatedAt |-> 0, ClosedAt |-> 0,
             Author |-> [Login |-> "", AvatarURL |-> ""], Labels |-> <<>>, Assignees |-> <<>>,
             Milestone |-> [ID |-> "", Title |-> "", State |-> ""],
             CommentsTotalCount |-> 0, ReactionsTotalCount |-> 0]
        NoPullRequest ==
            [ID |-> "", Number |-> 0, Title |-> "", Body |-> "", State |-> "", URL |-> "",
             CreatedAt |-> 0, UpdatedAt |-> 0, ClosedAt |-> 0, MergedAt |-> 0, IsDraft |-> FALSE,
             ReviewDecision |-> "", Author |-> [Login |-> "", AvatarURL |-> ""], Labels |-> <<>>,
             Assignees |-> <<>>, ReviewsTotalCount |-> 0, CommentsTotalCount |-> 0,
             Additions |-> 0, Deletions |-> 0, ChangedFiles |-> 0]
        CardIssue(closedAt, milestoneID) ==
            [NoIssue EXCEPT !.ID = "I_1", !.Number = 7, !.Title = "bug", !.Body = "text",
                            !.State = IF closedAt = 0 THEN "OPEN" ELSE "CLOSED",
                            !.StateReason = IF closedAt = 0 THEN "" ELSE "COMPLETED",
                            !.URL = "https://github.com/o/r/issues/7",
                            !.CreatedAt = 1, !.UpdatedAt = 2, !.ClosedAt = closedAt,
                            !.Author = [Login |-> "u", AvatarURL |-> "https://avatars/u"],
                            !.Labels = <<[ID |-> "L_1", Name |-> "bug", Color |-> "d73a4a",
                                          Description |-> "a bug"]>>,
                            !.Assignees = <<[ID |-> "U_1", Login |-> "u",
                                             AvatarURL |-> "https://avatars/u"]>>,
                            !.Milestone = [ID |-> milestoneID,
                                           Title |-> IF milestoneID = "" THEN "" ELSE "v1",
                                           State |-> IF milestoneID = "" THEN "" ELSE "OPEN"],
                            !.CommentsTotalCount = 4, !.ReactionsTotalCount = 1]
        CardPullRequest(closedAt, mergedAt) ==
            [NoPullRequest EXCEPT !.ID = "PR_1", !.Number = 8, !.Title = "fix", !.Body = "text",
                            !.State = IF mergedAt = 0 THEN "OPEN" ELSE "MERGED",
                            !.URL = "https://github.com/o/r/pull/8",
                            !.CreatedAt = 1, !.UpdatedAt = 2, !.ClosedAt = closedAt,
                            !.MergedAt = mergedAt, !.IsDraft = (mergedAt = 0),
                            !.ReviewDecision = "APPROVED",
                            !.Author = [Login |-> "v", AvatarURL |-> "https://avatars/v"],
                            !.ReviewsTotalCount = 2, !.CommentsTotalCount = 1,
                            !.Additions = 10, !.Deletions = 3, !.ChangedFiles = 2]
        CardContents ==
            {[TypeName |-> "Issue", Issue |-> CardIssue(2, "M_1"), PullRequest |-> NoPullRequest],
             [TypeName |-> "Issue", Issue |-> CardIssue(0, ""), PullRequest |-> NoPullRequest],
             [TypeName |-> "PullRequest", Issue |-> NoIssue, PullRequest |-> CardPullRequest(2, 2)],
             [TypeName |-> "PullRequest", Issue |-> NoIssue, PullRequest |-> CardPullRequest(0, 0)],
             [TypeName |-> "DraftIssue", Issue |-> NoIssue, PullRequest |-> NoPullRequest],
             \* Contents that carry data in a branch TypeName does not name.
             [TypeName |-> "Issue", Issue |-> CardIssue(0, ""),
              PullRequest |-> CardPullRequest(2, 2)],
             [TypeName |-> "DraftIssue", Issue |-> CardIssue(2, "M_1"),
              PullRequest |-> NoPullRequest]}
        CardFieldValues ==
            {<<>>,
             <<CardSelect, CardText, CardNumber, CardDate, CardIteration>>,
             <<CardRepository, CardUsers, CardLabels, CardMilestone(0), CardPullRequests>>,
             <<CardUnknown, CardMilestone(1)>>,
             <<CardStrayText, CardStrayUnknown>>}
    IN  [ID : {"PVTI_1"}, Archived : BOOLEAN, CreatedAt : {0, 1}, UpdatedAt : {2},
         Creator : {[Login |-> "u", AvatarURL |-> "https://avatars/u"]},
         Project : {[ID |-> "PVT_1", Title |-> "a", URL |-> "https://github.com/users/o/projects/1"]},
         FieldValues : CardFieldValues, Content : CardContents]

GetProjectCard_Params(r) ==
    IF RequiredParam(r, "card_id", "str").err # ""
    THEN NewToolResultError(RequiredParam(r, "card_id", "str").err)
    ELSE NoResult

GetProjectCard ==
    \E r \in [card_id         : {Absent, Str("PVTI_1"), Num(1)},
              include_history : {Absent, Bool(TRUE), Bool(FALSE)}],
       ce \in BOOLEAN :
        LET early == GetProjectCard_Params(r) IN
        /\ Begin("GetProjectCard", r, ce)
        /\ loc' = NoLocals
        /\ IF early.kind # "none"
           THEN acquired' = 0 /\ Return(early)
           ELSE /\ acquired' = 1
                /\ IF ce
                   THEN Return(GoError("failed to get GitHub GraphQL client"))
                   ELSE Goto("GetProjectCard_query")

GetProjectCard_users(nodes) ==
    [i \in DOMAIN nodes |-> [id |-> nodes[i].ID, login |-> nodes[i].Login,
                             avatar_url |-> nodes[i].AvatarURL]]
GetProjectCard_fieldLabels(nodes) ==
    [i \in DOMAIN nodes |-> [id |-> nodes[i].ID, name |-> nodes[i].Name,
                             color |-> nodes[i].Color]]
GetProjectCard_pullRequests(nodes) ==
    [i \in DOMAIN nodes |-> [id |-> nodes[i].ID, number |-> nodes[i].Number,
                             title |-> nodes[i].Title, url |-> nodes[i].URL]]

\* The value key of a field's info, taken from the branch TypeName names;
\* no key for any other TypeName.
GetProjectCard_value(fv) ==
    CASE fv.TypeName = "ProjectV2ItemFieldSingleSelectValue" ->
            [value |-> [id |-> fv.SingleSelectValue.ID, name |-> fv.SingleSelectValue.Name,
                        description |-> fv.SingleSelectValue.Description,
                        color |-> fv.SingleSelectValue.Color]]
      [] fv.TypeName = "ProjectV2ItemFieldTextValue"   -> [value |-> fv.TextValue]
      [] fv.TypeName = "ProjectV2ItemFieldNumberValue" -> [value |-> fv.NumberValue]
      [] fv.TypeName = "ProjectV2ItemFieldDateValue"   -> [value |-> fv.DateValue]
      [] fv.TypeName = "ProjectV2ItemFieldIterationValue" ->
            [value |-> [id |-> fv.IterationValue.ID, title |-> fv.IterationValue.Title,
                        start_date |-> fv.IterationValue.StartDate,
                        duration |-> fv.IterationValue.Duration]]
      [] fv.TypeName = "ProjectV2ItemFieldRepositoryValue" ->
            [value |-> [id |-> fv.RepositoryValue.ID, name |-> fv.RepositoryValue.Name,
                        url |-> fv.RepositoryValue.URL,
                        is_private |-> fv.RepositoryValue.IsPrivate]]
      [] fv.TypeName = "ProjectV2ItemFieldUserValue" ->
            [value |-> GetProjectCard_users(fv.UserValue)]
      [] fv.TypeName = "ProjectV2ItemFieldLabelValue" ->
            [value |-> GetProjectCard_fieldLabels(fv.LabelValue)]
      [] fv.TypeName = "ProjectV2ItemFieldMilestoneValue" ->
            [value |-> [id |-> fv.MilestoneValue.ID, title |-> fv.MilestoneValue.Title,
                        description |-> fv.MilestoneValue.Description,
                        due_on |-> FormatTime(fv.MilestoneValue.DueOn),
                        state |-> fv.MilestoneValue.State]]
      [] fv.TypeName = "ProjectV2ItemFieldPullRequestValue" ->
            [value |-> GetProjectCard_pullRequests(fv.PullRequestValue)]
      [] OTHER -> <<>>

GetProjectCard_fieldInfo(fv) ==
    [field_id |-> fv.Field.ID, data_type |-> fv.Field.DataType, field_name |-> fv.Field.Name]
    @@ GetProjectCard_value(fv)

\* fields: field name -> field info; a later value of a name replaces an
\* earlier one.
GetProjectCard_fields(nodes) ==
    [name \in {nodes[i].Field.Name : i \in DOMAIN nodes} |->
        LET IsIt(fv) == fv.Field.Name = name
        IN  GetProjectCard_fieldInfo(nodes[LastIndex(nodes, IsIt)])]

GetProjectCard_labels(nodes) ==
    [i \in DOMAIN nodes |-> [id |-> nodes[i].ID, name |-> nodes[i].Name,
                             color |-> nodes[i].Color, description |-> nodes[i].Description]]

GetProjectCard_issue(issue) ==
    [id             |-> issue.ID,
     number         |-> issue.Number,
     title          |-> issue.Title,
     body           |-> issue.Body,
     state          |-> issue.State,
     state_reason   |-> issue.StateReason,
     url            |-> issue.URL,
     created_at     |-> FormatTime(issue.CreatedAt),
     updated_at     |-> FormatTime(issue.UpdatedAt),
     labels         |-> GetProjectCard_labels(issue.Labels),
     assignees      |-> GetProjectCard_users(issue.Assignees),
     comment_count  |-> issue.CommentsTotalCount,
     reaction_count |-> issue.ReactionsTotalCount,
     author         |-> [login |-> issue.Author.Login, avatar_url |-> issue.Author.AvatarURL]]
    @@ (IF ~IsZero(issue.ClosedAt) THEN [closed_at |-> FormatTime(issue.ClosedAt)] ELSE <<>>)
    @@ (IF issue.Milestone.ID # ""
        THEN [milestone |-> [id |-> issue.Milestone.ID, title |-> issue.Milestone.Title,
                             state |-> issue.Milestone.State]]
        ELSE <<>>)

GetProjectCard_pullRequest(pr) ==
    [id              |-> pr.ID,
     number          |-> pr.Number,
     title           |-> pr.Title,
     body            |-> pr.Body,
     state           |-> pr.State,
     url             |-> pr.URL,
     created_at      |-> FormatTime(pr.CreatedAt),
     updated_at      |-> FormatTime(pr.UpdatedAt),
     is_draft        |-> pr.IsDraft,
     review_decision |-> pr.ReviewDecision,
     labels          |-> GetProjectCard_labels(pr.Labels),
     assignees       |-> GetProjectCard_users(pr.Assignees),
     review_count    |-> pr.ReviewsTotalCount,
     comment_count   |-> pr.CommentsTotalCount,
     additions       |-> pr.Additions,
     deletions       |-> pr.Deletions,
     changed_files   |-> pr.ChangedFiles,
     author          |-> [login |-> pr.Author.Login, avatar_url |-> pr.Author.AvatarURL]]
    @@ (IF ~IsZero(pr.ClosedAt) THEN [closed_at |-> FormatTime(pr.ClosedAt)] ELSE <<>>)
    @@ (IF ~IsZero(pr.MergedAt) THEN [merged_at |-> FormatTime(pr.MergedAt)] ELSE <<>>)

\* GetProjectCard_content choosing the branch by its non-empty ID, not by
\* TypeName.
GetProjectCard_content_byID(content) ==
    IF content.Issue.ID # ""
    THEN [content |-> GetProjectCard_issue(content.Issue)]
    ELSE IF content.PullRequest.ID # ""
    THEN [content |-> GetProjectCard_pullRequest(content.PullRequest)]
    ELSE <<>>

\* The content key of the result, present for an Issue or a PullRequest only.
GetProjectCard_content(content) ==
    IF content.TypeName = "Issue"
    THEN [content |-> GetProjectCard_issue(content.Issue)]
    ELSE IF content.TypeName = "PullRequest"
    THEN [content |-> GetProjectCard_pullRequest(content.PullRequest)]
    ELSE <<>>

GetProjectCard_result(item, includeHistory) ==
    [id         |-> item.ID,
     archived   |-> item.Archived,
     created_at |-> FormatTime(item.CreatedAt),
     updated_at |-> FormatTime(item.UpdatedAt),
     creator    |-> [login |-> item.Creator.Login, avatar_url |-> item.Creator.AvatarURL],
     project    |-> [id |-> item.Project.ID, title |-> item.Project.Title,
                     url |-> item.Project.URL],
     type       |-> item.Content.TypeName,
     fields     |-> GetProjectCard_fields(item.FieldValues)]
    @@ GetProjectCard_content(item.Content)
    @@ (IF includeHistory
        THEN [history_note |-> "Card history/timeline feature coming in Phase 3"]
        ELSE <<>>)

GetProjectCard_query ==
    /\ pc = "GetProjectCard_query"
    /\ LET vars_ == [id |-> RequiredParam(request, "card_id", "str").value] IN
       \/ \E e \in ErrTexts :
            /\ calls' = Append(calls, Call("Query", "item", vars_, FALSE))
            /\ Return(NewToolResultError("failed to get card details: " \o e))
            /\ loc' = loc
       \/ \E item \in CardAnswers :
            /\ calls' = Append(calls, Call("Query", "item", vars_, TRUE))
            /\ loc' = [item |-> item]
            /\ Return(NewToolResultText(GetProjectCard_result(
                   item, OptionalParam(request, "include_history", "bool"))))
    /\ UNCHANGED <<tool, request, clientErr, acquired>>

----------------------------------------------------------------------------
(* Strings (package strings)                                               *)

\* strings.HasPrefix(s, prefix)
HasPrefix(s, prefix) ==
    Len(s) >= Len(prefix) /\ SubSeq(s, 1, Len(prefix)) = prefix

\* strings.HasSuffix(s, suffix)
HasSuffix(s, suffix) ==
    Len(s) >= Len(suffix) /\ SubSeq(s, Len(s) - Len(suffix) + 1, Len(s)) = suffix

\* The positions at which substr occurs in s.
Occurrences(s, substr) ==
    {i \in 1..(Len(s) - Len(substr) + 1) : SubSeq(s, i, i + Len(substr) - 1) = substr}

\* strings.Contains(s, substr)
Contains(s, substr) == Occurrences(s, substr) # {}

\* 1 + strings.Index(s[from-1:], substr) + from - 1, or 0 when there is none.
IndexFrom(s, substr, from) ==
    LET at == {i \in Occurrences(s, substr) : i >= from}
    IN  IF at = {} THEN 0 ELSE CHOOSE i \in at : \A j \in at : i <= j

\* strings.Join(elems, sep)
RECURSIVE Join(_, _)
Join(elems, sep) ==
    IF Len(elems) = 0 THEN ""
    ELSE IF Len(elems) = 1 THEN elems[1]
    ELSE elems[1] \o sep \o Join(Tail(elems), sep)

\* fmt.Sprintf("%d", n) for the small n that number the errors of a list.
Itoa(n) ==
    CASE n = 0 -> "0" [] n = 1 -> "1" [] n = 2 -> "2" [] n = 3 -> "3" [] n = 4 -> "4"
      [] n = 5 -> "5" [] n = 6 -> "6" [] n = 7 -> "7" [] n = 8 -> "8" [] n = 9 -> "9"

----------------------------------------------------------------------------
(* ID validators                                                           *)

\* ValidateProjectID looking for "PVT_" anywhere in the ID.
ValidateProjectID_anywhere(id) ==
    IF ~Contains(id, "PVT_")
    THEN "invalid project ID format: '" \o id
         \o "'. Project IDs should start with 'PVT_' (e.g., 'PVT_kwDOAM6J184ACzDx')"
    ELSE ""

\* Each returns the text of the error, "" for nil.
ValidateProjectID(id) ==
    IF ~HasPrefix(id, "PVT_")
    THEN "invalid project ID format: '" \o id
         \o "'. Project IDs should start with 'PVT_' (e.g., 'PVT_kwDOAM6J184ACzDx')"
    ELSE ""

ValidateColumnID(id) ==
    IF ~HasPrefix(id, "PVTFSC_") /\ ~HasPrefix(id, "PVTSSF_")
    THEN "invalid column ID format: '" \o id
         \o "'. Column IDs should start with 'PVTFSC_' or 'PVTSSF_'"
    ELSE ""

\* ValidateItemID testing the letters "PVT" only.
ValidateItemID_anyProjectsID(id) ==
    IF ~HasPrefix(id, "PVT")
    THEN "invalid item ID format: '" \o id \o "'. Item IDs should start with 'PVTI_'"
    ELSE ""

ValidateItemID(id) ==
    IF ~HasPrefix(id, "PVTI_")
    THEN "invalid item ID format: '" \o id \o "'. Item IDs should start with 'PVTI_'"
    ELSE ""

IDs ==
    \* The IDs the validators are applied to: a head, well-formed or not,
    \* followed by a tail.
    LET IDHeads ==
            {"", "PVT_", "PVTI_", "PVTFSC_", "PVTSSF_", "PVT", "PVTI", "PVTFSC", "PVTSS_",
             "pvt_", "XYZ_", " PVT_", "xPVTI_", "PVTF_", "VT_"}
        IDTails == {"", "abc", "kwDOAM6J184ACzDx", "PVT_", "PVTI_1", "PVTSSF_"}
    IN  {h \o t : h \in IDHeads, t \in IDTails}

\* The value a function returns for an error: its text, "" for nil.
ErrorValue(text) == [kind |-> "error", err |-> text]
\* The value a function returns for a string.
StringValue(text) == [kind |-> "string", text |-> text]

Apply_ValidateProjectID ==
    \E id \in IDs :
        /\ Begin("ValidateProjectID", [id |-> Str(id)], FALSE)
        /\ acquired' = 0
        /\ loc' = NoLocals
        /\ Return(ErrorValue(ValidateProjectID(id)))

Apply_ValidateColumnID ==
    \E id \in IDs :
        /\ Begin("ValidateColumnID", [id |-> Str(id)], FALSE)
        /\ acquired' = 0
        /\ loc' = NoLocals
        /\ Return(ErrorValue(ValidateColumnID(id)))

Apply_ValidateItemID ==
    \E id \in IDs :
        /\ Begin("ValidateItemID", [id |-> Str(id)], FALSE)
        /\ acquired' = 0
        /\ loc' = NoLocals
        /\ Return(ErrorValue(ValidateItemID(id)))

----------------------------------------------------------------------------
(* GraphQL error parsing and formatting                                    *)

MaxErrors == 2

\* A GraphQLError: its message and its path, each path element as the text
\* %v prints for it.
GraphQLError(message, path) == [Message |-> message, Path |-> path]

\* The JSON text of a GraphQLErrors value (field tags "errors", "message",
\* "path,omitempty"); a path element is given as its JSON token.
MarshalError(e) ==
    "{\"message\":\"" \o e.Message \o "\""
    \o (IF Len(e.Path) = 0 THEN "" ELSE ",\"path\":[" \o Join(e.Path, ",") \o "]")
    \o "}"
MarshalErrors(errors) ==
    "{\"errors\":[" \o Join([i \in DOMAIN errors |-> MarshalError(errors[i])], ",") \o "]}"

\* json.Unmarshal of a path: quoted strings and bare numbers separated by
\* commas.  The result is [ok, value].
RECURSIVE UnmarshalPath(_)
UnmarshalPath(t) ==
    LET quoted == HasPrefix(t, "\"")
        close  == IF quoted THEN IndexFrom(t, "\"", 2) ELSE IndexFrom(t, ",", 1)
        end    == IF quoted THEN close ELSE IF close = 0 THEN Len(t) ELSE close - 1
        elem   == IF quoted THEN SubSeq(t, 2, close - 1) ELSE SubSeq(t, 1, end)
        rest   == SubSeq(t, end + 1, Len(t))
    IN  IF t = "" \/ (quoted /\ close = 0) \/ elem = ""
        THEN [ok |-> FALSE, value |-> <<>>]
        ELSE IF rest = ""
        THEN [ok |-> TRUE, value |-> <<elem>>]
        ELSE IF ~HasPrefix(rest, ",")
        THEN [ok |-> FALSE, value |-> <<>>]
        ELSE LET more == UnmarshalPath(SubSeq(rest, 2, Len(rest)))
             IN  [ok |-> more.ok, value |-> <<elem>> \o more.value]

\* json.Unmarshal of the elements of "errors": objects with a "message" and
\* an optional "path", separated by commas.
RECURSIVE UnmarshalErrorList(_)
UnmarshalErrorList(t) ==
    LET fail     == [ok |-> FALSE, value |-> <<>>]
        close    == IndexFrom(t, "\"", 13)
        message  == SubSeq(t, 13, close - 1)
        after    == SubSeq(t, close + 1, Len(t))
        hasPath  == HasPrefix(after, ",\"path\":[")
        pathEnd  == IndexFrom(after, "]}", 10)
        path     == IF hasPath /\ pathEnd > 10
                    THEN UnmarshalPath(SubSeq(after, 10, pathEnd - 1))
                    ELSE [ok |-> hasPath /\ pathEnd = 10, value |-> <<>>]
        rest     == IF hasPath THEN SubSeq(after, pathEnd + 2, Len(after))
                    ELSE SubSeq(after, 2, Len(after))
        entry    == GraphQLError(message, path.value)
    IN  IF ~HasPrefix(t, "{\"message\":\"") \/ close = 0 THEN fail
        ELSE IF ~hasPath /\ ~HasPrefix(after, "}") THEN fail
        ELSE IF hasPath /\ (pathEnd = 0 \/ ~path.ok) THEN fail
        ELSE IF rest = "" THEN [ok |-> TRUE, value |-> <<entry>>]
        ELSE IF ~HasPrefix(rest, ",") THEN fail
        ELSE LET more == UnmarshalErrorList(SubSeq(rest, 2, Len(rest)))
             IN  [ok |-> more.ok, value |-> <<entry>> \o more.value]

\* json.Unmarshal([]byte(text), &gqlErrors) for the documents MarshalErrors
\* writes; any other text is not a GraphQLErrors document.
Unmarshal(text) ==
    IF HasPrefix(text, "{\"errors\":[") /\ HasSuffix(text, "]}") /\ Len(text) >= 13
    THEN IF Len(text) = 13
         THEN [ok |-> TRUE, value |-> <<>>]
         ELSE UnmarshalErrorList(SubSeq(text, 12, Len(text) - 2))
    ELSE [ok |-> FALSE, value |-> <<>>]

\* GraphQLErrors.Error()
GraphQLErrors_Error(errors) ==
    IF Len(errors) = 0
    THEN "unknown GraphQL error"
    ELSE Join([i \in DOMAIN errors |-> errors[i].Message], "; ")

\* ParseGraphQLError matching the phrase "could not resolve to" in lower case.
ParseGraphQLError_lowerCase(errMsg) ==
    IF Unmarshal(errMsg).ok /\ Len(Unmarshal(errMsg).value) > 0
    THEN [Errors |-> Unmarshal(errMsg).value, ok |-> TRUE]
    ELSE IF \/ Contains(errMsg, "could not resolve to")
            \/ Contains(errMsg, "was not found")
            \/ Contains(errMsg, "must be a member")
            \/ Contains(errMsg, "insufficient scopes")
    THEN [Errors |-> <<GraphQLError(errMsg, <<>>)>>, ok |-> TRUE]
    ELSE [Errors |-> <<>>, ok |-> FALSE]

\* ParseGraphQLError(err) for a non-nil err with text errMsg: the pair of the
\* GraphQLErrors found (its Errors) and ok.
ParseGraphQLError(errMsg) ==
    IF Unmarshal(errMsg).ok /\ Len(Unmarshal(errMsg).value) > 0
    THEN [Errors |-> Unmarshal(errMsg).value, ok |-> TRUE]
    ELSE IF \/ Contains(errMsg, "Could not resolve to")
            \/ Contains(errMsg, "was not found")
            \/ Contains(errMsg, "must be a member")
            \/ Contains(errMsg, "insufficient scopes")
    THEN [Errors |-> <<GraphQLError(errMsg, <<>>)>>, ok |-> TRUE]
    ELSE [Errors |-> <<>>, ok |-> FALSE]

\* ParseGraphQLError(err) for any err: a nil err (Absent) gives (nil, false),
\* the nil *GraphQLErrors being the empty Errors.
ParseGraphQLError_err(err) ==
    IF err = Absent
    THEN [Errors |-> <<>>, ok |-> FALSE]
    ELSE ParseGraphQLError(err.v)

ResolveHint ==
    "\nThis usually means the item was deleted or you don't have permission to access it."
MemberHint ==
    "\nYou need to be a member of the organization to perform this action."
ScopesHint ==
    "\nYour GitHub token needs additional permissions. Check the required scopes in the documentation."
NotFoundHint ==
    "\nVerify that the ID is correct and that you have access to this resource."

\* The message with its path annotation.
formatSingleError_msg(err) ==
    IF Len(err.Path) > 0
    THEN err.Message \o " (at path: " \o Join(err.Path, ".") \o ")"
    ELSE err.Message

\* formatSingleError with independent tests instead of the else-if chain.
formatSingleError_everyHint(err) ==
    LET msg == formatSingleError_msg(err) IN
    msg
    \o (IF Contains(msg, "Could not resolve to a node with the global id")
        THEN ResolveHint ELSE "")
    \o (IF Contains(msg, "must be a member of the") THEN MemberHint ELSE "")
    \o (IF Contains(msg, "insufficient scopes") THEN ScopesHint ELSE "")
    \o (IF Contains(msg, "was not found") THEN NotFoundHint ELSE "")

formatSingleError(err) ==
    LET msg == formatSingleError_msg(err) IN
    IF Contains(msg, "Could not resolve to a node with the global id")
    THEN msg \o ResolveHint
    ELSE IF Contains(msg, "must be a member of the")
    THEN msg \o MemberHint
    ELSE IF Contains(msg, "insufficient scopes")
    THEN msg \o ScopesHint
    ELSE IF Contains(msg, "was not found")
    THEN msg \o NotFoundHint
    ELSE msg

FormatGraphQLError(errMsg) ==
    LET gqlErr == ParseGraphQLError(errMsg) IN
    IF ~gqlErr.ok
    THEN errMsg
    ELSE IF Len(gqlErr.Errors) = 1
    THEN formatSingleError(gqlErr.Errors[1])
    ELSE "Multiple errors:\n"
         \o Join([i \in DOMAIN gqlErr.Errors |->
                    Itoa(i) \o ". " \o formatSingleError(gqlErr.Errors[i])], "\n")

\* The error entries the JSON documents are made of.
ErrorEntries ==
    {GraphQLError(m, path) :
        m \in {"boom",
               "You must be a member of the acme organization",
               "Could not resolve to a node with the global id of 'PVT_1': must be a member of the org"},
        path \in {<<>>, <<"\"node\"", "0">>}}

GraphQLErrorTexts ==
    \* The errors the functions are applied to: plain texts made of one or two
    \* phrases, and JSON documents of up to MaxErrors errors.
    LET Phrases ==
            {"boom",
             "Could not resolve to a node with the global id of 'PVT_1'",
             "could not resolve to a node",
             "You must be a member of the acme organization",
             "must be a member",
             "insufficient scopes",
             "Project was not found",
             "You need to be a member of the organization to perform this action."}
        PlainTexts == Phrases \cup {a \o ": " \o b : a \in Phrases, b \in Phrases}
        ErrorDocuments ==
            {MarshalErrors(errors) : errors \in SeqsUpTo(ErrorEntries, MaxErrors)}
    IN  PlainTexts \cup ErrorDocuments \cup {"{\"errors\":[{\"message\":\"boom\"}"}

Apply_ParseGraphQLError ==
    \E err \in {Absent} \cup {Str(errMsg) : errMsg \in GraphQLErrorTexts} :
        /\ Begin("ParseGraphQLError", [err |-> err], FALSE)
        /\ acquired' = 0
        /\ loc' = NoLocals
        /\ Return([kind |-> "parsed", gqlErr |-> ParseGraphQLError_err(err)])

Apply_FormatGraphQLError ==
    \E errMsg \in GraphQLErrorTexts :
        /\ Begin("FormatGraphQLError", [err |-> Str(errMsg)], FALSE)
        /\ acquired' = 0
        /\ loc' = [gqlErr |-> ParseGraphQLError(errMsg)]
        /\ Return(StringValue(FormatGraphQLError(errMsg)))

Apply_GraphQLErrors_Error ==
    \E errors \in SeqsUpTo(ErrorEntries, MaxErrors) :
        /\ Begin("GraphQLErrors.Error", [errors |-> Arr(errors)], FALSE)
        /\ acquired' = 0
        /\ loc' = NoLocals
        /\ Return(StringValue(GraphQLErrors_Error(errors)))

----------------------------------------------------------------------------

Init ==
    /\ tool = "none"
    /\ request = <<>>
    /\ clientErr = FALSE
    /\ acquired = 0
    /\ calls = <<>>
    /\ loc = NoLocals
    /\ pc = "idle"
    /\ result = NoResult

Next ==
    \/ CreateProjectBoard
    \/ CreateProjectBoard_ownerQuery
    \/ CreateProjectBoard_repoQuery
    \/ CreateProjectBoard_createMutate
    \/ CreateProjectBoard_updateMutate
    \/ UpdateProjectBoard
    \/ UpdateProjectBoard_mutate
    \/ DeleteProjectBoard
    \/ DeleteProjectBoard_mutate
    \/ ListProjectBoards
    \/ ListProjectBoards_query
    \/ GetProjectBoard
    \/ GetProjectBoard_query
    \/ CreateProjectColumn
    \/ CreateProjectColumn_query
    \/ UpdateProjectColumn
    \/ DeleteProjectColumn
    \/ ReorderProjectColumns
    \/ GetProjectColumn
    \/ ListProjectColumns
    \/ ListProjectColumns_query
    \/ ListProjectCards
    \/ ListProjectCards_query
    \/ GetProjectCard
    \/ GetProjectCard_query
    \/ Apply_ValidateProjectID
    \/ Apply_ValidateColumnID
    \/ Apply_ValidateItemID
    \/ Apply_ParseGraphQLError
    \/ Apply_FormatGraphQLError
    \/ Apply_GraphQLErrors_Error
    \/ AddCardToProjectSimple
    \/ MoveProjectCardSimple
    \/ UpdateProjectCardSimple
    \/ RemoveCardFromProjectSimple
    \/ BulkMoveCardsSimple
    \/ MoveProjectCard
    \/ MoveProjectCard_query
    \/ MoveProjectCard_mutate
    \/ UpdateProjectCard
    \/ UpdateProjectCard_query
    \/ UpdateProjectCard_field
    \/ RemoveCardFromProject
    \/ RemoveCardFromProject_archive
    \/ RemoveCardFromProject_delete
    \/ BulkMoveCards
    \/ BulkMoveCards_query
    \/ BulkMoveCards_mutate

Spec == Init /\ [][Next]_vars

----------------------------------------------------------------------------
(* The tool declarations: the name each handler's tool is declared under   *)
(* and the parameters its schema marks mcp.Required().                     *)

ToolName(h) ==
    CASE h = "CreateProjectBoard"          -> "create_project_board"
      [] h = "UpdateProjectBoard"          -> "update_project_board"
      [] h = "DeleteProjectBoard"          -> "delete_project_board"
      [] h = "ListProjectBoards"           -> "list_project_boards"
      [] h = "GetProjectBoard"             -> "get_project_board"
      [] h = "CreateProjectColumn"         -> "create_project_column"
      [] h = "UpdateProjectColumn"         -> "update_project_column"
      [] h = "DeleteProjectColumn"         -> "delete_project_column"
      [] h = "ReorderProjectColumns"       -> "reorder_project_columns"
      [] h = "ListProjectColumns"          -> "list_project_columns"
      [] h = "GetProjectColumn"            -> "get_project_column"
      [] h = "AddCardToProjectSimple"      -> "add_card_to_project"
      [] h = "MoveProjectCardSimple"       -> "move_project_card"
      [] h = "UpdateProjectCardSimple"     -> "update_project_card"
      [] h = "RemoveCardFromProjectSimple" -> "remove_card_from_project"
      [] h = "BulkMoveCardsSimple"         -> "bulk_move_cards"
      [] h = "MoveProjectCard"             -> "move_project_card"
      [] h = "UpdateProjectCard"           -> "update_project_card"
      [] h = "RemoveCardFromProject"       -> "remove_card_from_project"
      [] h = "BulkMoveCards"               -> "bulk_move_cards"
      [] h = "ListProjectCards"            -> "list_project_cards"
      [] h = "GetProjectCard"              -> "get_project_card"
      [] OTHER                             -> ""

Required(h) ==
    CASE h = "CreateProjectBoard"          -> {"name", "owner"}
      [] h = "UpdateProjectBoard"          -> {"board_id"}
      [] h = "DeleteProjectBoard"          -> {"board_id", "confirm"}
      [] h = "ListProjectBoards"           -> {"owner"}
      [] h = "GetProjectBoard"             -> {"board_id"}
      [] h = "CreateProjectColumn"         -> {"board_id", "name"}
      [] h = "UpdateProjectColumn"         -> {"column_id"}
      [] h = "DeleteProjectColumn"         -> {"column_id"}
      [] h = "ReorderProjectColumns"       -> {"board_id", "column_order"}
      [] h = "ListProjectColumns"          -> {"board_id"}
      [] h = "GetProjectColumn"            -> {"column_id"}
      [] h = "AddCardToProjectSimple"      -> {"board_id", "content_id"}
      [] h = "MoveProjectCardSimple"       -> {"card_id", "column_id"}
      [] h = "UpdateProjectCardSimple"     -> {"card_id"}
      [] h = "RemoveCardFromProjectSimple" -> {"card_id"}
      [] h = "BulkMoveCardsSimple"         -> {"card_ids", "target_column_id"}
      [] h = "MoveProjectCard"             -> {"card_id", "column_id"}
      [] h = "UpdateProjectCard"           -> {"card_id"}
      [] h = "RemoveCardFromProject"       -> {"card_id"}
      [] h = "BulkMoveCards"               -> {"card_ids", "target_column_id"}
      [] h = "ListProjectCards"            -> {"board_id"}
      [] h = "GetProjectCard"              -> {"card_id"}
      [] OTHER                             -> {}

\* Whether a call of the operation op is among the calls made so far.
Issued(op) == \E i \in DOMAIN calls : calls[i].op = op

----------------------------------------------------------------------------
(* Properties                                                              *)

\* C1: in every handler, a request that omits a parameter the tool declares
\* required makes the handler return a tool-level error result (not a Go
\* error), and no Query or Mutate call is made during the invocation.
C1_RequiredOmitted ==
    \A p \in Required(tool) :
        request[p] = Absent =>
            /\ pc = "done"
            /\ result.kind = "toolError"
            /\ calls = <<>>

\* A create_project_board request with a name and no owner has returned.
C1_Witness ==
    /\ tool = "CreateProjectBoard"
    /\ request.name = Str("n")
    /\ request.owner = Absent
    /\ ~clientErr
    /\ pc = "done"
    /\ result.kind = "toolError"

\* C2: delete_project_board with confirm false or absent returns an error
\* result without acquiring the client or issuing deleteProjectV2; the
\* mutation is issued only when board_id is present and confirm is true.
C2_DeleteNeedsConfirm ==
    tool = "DeleteProjectBoard" =>
        /\ request.confirm \in {Absent, Bool(FALSE)} =>
              /\ pc = "done"
              /\ result.kind = "toolError"
              /\ acquired = 0
              /\ ~Issued("deleteProjectV2")
        /\ Issued("deleteProjectV2") =>
              /\ request.board_id # Absent
              /\ request.confirm = Bool(TRUE)

\* delete_project_board with a board_id and confirm=false has returned.
C2_Witness ==
    /\ tool = "DeleteProjectBoard"
    /\ request.board_id = Str("PVT_1")
    /\ request.confirm = Bool(FALSE)
    /\ pc = "done"
    /\ result.kind = "toolError"

\* C3: create_project_board with public=true, once createProjectV2 has
\* succeeded, returns a success payload with the created project's id,
\* number, title and url, whether updateProjectV2 succeeds or fails.
C3_CreateSurvivesVisibilityFailure ==
    (/\ tool = "CreateProjectBoard"
     /\ pc = "done"
     /\ Issued("updateProjectV2")) =>
        /\ request.public = Bool(TRUE)
        /\ result.kind = "text"
        /\ result.payload.id = loc.created.ID
        /\ result.payload.number = loc.created.Number
        /\ result.payload.title = loc.created.Title
        /\ result.payload.url = loc.created.URL

\* The visibility update failed after a successful creation, and the
\* handler has returned.
C3_Witness ==
    /\ tool = "CreateProjectBoard"
    /\ pc = "done"
    /\ Len(calls) > 0
    /\ calls[Len(calls)].op = "updateProjectV2"
    /\ ~calls[Len(calls)].ok
    /\ result.kind = "text"
    /\ result.payload.id = "PVT_2"

\* C4: list_project_boards with type="user" returns no entry with owner_type
\* "organization", with type="organization" no entry with owner_type "user",
\* whatever the server returned for the two namespaces; total_count is the
\* number of entries of projects.
C4_ListFiltersByOwnerType ==
    (/\ tool = "ListProjectBoards"
     /\ pc = "done"
     /\ result.kind = "text") =>
        LET projects == result.payload.projects IN
        /\ request.type = Str("user") =>
              \A i \in DOMAIN projects : projects[i].owner_type # "organization"
        /\ request.type = Str("organization") =>
              \A i \in DOMAIN projects : projects[i].owner_type # "user"
        /\ result.payload.total_count = Len(projects)

\* type="user", the server returned projects in both namespaces, and the
\* handler has returned the user's.
C4_Witness ==
    /\ tool = "ListProjectBoards"
    /\ pc = "done"
    /\ result.kind = "text"
    /\ request.type = Str("user")
    /\ Len(loc.userNodes) > 0
    /\ Len(loc.orgNodes) > 0
    /\ Len(result.payload.projects) = Len(loc.userNodes)

\* The updateProjectV2ItemFieldValue mutations made so far, in order.
MoveMutations ==
    SelectSeq(calls, LAMBDA c : c.op = "updateProjectV2ItemFieldValue")

\* C5: bulk_move_cards (BulkMoveCards), for a non-empty list of card IDs and
\* any pattern of per-card mutation outcomes: moved_count + failed_count =
\* total_cards = number of input IDs = number of results entries, moved_count
\* is the number of mutations that succeeded, and the i-th entry carries the
\* i-th input ID tagged by its own mutation's outcome.
C5_BulkMoveCounts ==
    (/\ tool = "BulkMoveCards"
     /\ pc = "done"
     /\ result.kind = "text") =>
        LET out == result.payload
            ids == request.card_ids.v
        IN  /\ Len(ids) > 0
            /\ Len(MoveMutations) = Len(ids)
            /\ out.moved_count + out.failed_count = out.total_cards
            /\ out.total_cards = Len(ids)
            /\ Len(out.results) = Len(ids)
            /\ out.moved_count =
                  Cardinality({i \in DOMAIN MoveMutations : MoveMutations[i].ok})
            /\ \A i \in DOMAIN out.results :
                  /\ out.results[i].card_id = ids[i].v
                  /\ MoveMutations[i].input.itemId = ids[i].v
                  /\ out.results[i].status =
                        IF MoveMutations[i].ok THEN "moved" ELSE "failed"

\* Three cards, the second mutation failing: 2 moved, 1 failed, 3 entries.
C5_Witness ==
    /\ tool = "BulkMoveCards"
    /\ pc = "done"
    /\ result.kind = "text"
    /\ Len(request.card_ids.v) = 3
    /\ Len(MoveMutations) = 3
    /\ MoveMutations[1].ok /\ ~MoveMutations[2].ok /\ MoveMutations[3].ok
    /\ result.payload.moved_count = 2
    /\ result.payload.failed_count = 1
    /\ Len(result.payload.results) = 3

\* C6: bulk_move_cards (BulkMoveCards) reports success exactly when at least
\* one card's mutation succeeded (moved_count > 0); when every mutation
\* fails it still returns a normal result, with success false.
C6_BulkMoveSuccessFlag ==
    (/\ tool = "BulkMoveCards"
     /\ pc = "done"
     /\ Len(MoveMutations) > 0) =>
        /\ result.kind = "text"
        /\ result.payload.success = (result.payload.moved_count > 0)
        /\ result.payload.success = (\E i \in DOMAIN MoveMutations : MoveMutations[i].ok)

\* Two cards, both mutations failing: a normal result with success false.
C6_Witness ==
    /\ tool = "BulkMoveCards"
    /\ pc = "done"
    /\ Len(MoveMutations) = 2
    /\ \A i \in DOMAIN MoveMutations : ~MoveMutations[i].ok
    /\ result.kind = "text"
    /\ ~result.payload.success
    /\ result.payload.moved_count = 0

\* id is prefix followed by some tail of id.
StartsWith(id, prefix) ==
    \E n \in 0..Len(id) : id = prefix \o SubSeq(id, n + 1, Len(id))

\* C7: the ID validators check only the prefix: ValidateProjectID returns no
\* error iff the ID starts with "PVT_", ValidateColumnID iff it starts with
\* "PVTFSC_" or "PVTSSF_", ValidateItemID iff it starts with "PVTI_"; the
\* error message names the expected prefix and the offending ID.
C7_ValidatorsCheckPrefix ==
    /\ (tool = "ValidateProjectID" /\ pc = "done") =>
          LET id == request.id.v IN
          /\ (result.err = "") = StartsWith(id, "PVT_")
          /\ result.err # "" =>
                /\ Contains(result.err, "'PVT_'")
                /\ Contains(result.err, "'" \o id \o "'")
    /\ (tool = "ValidateColumnID" /\ pc = "done") =>
          LET id == request.id.v IN
          /\ (result.err = "") = (StartsWith(id, "PVTFSC_") \/ StartsWith(id, "PVTSSF_"))
          /\ result.err # "" =>
                /\ Contains(result.err, "'PVTFSC_'")
                /\ Contains(result.err, "'PVTSSF_'")
                /\ Contains(result.err, "'" \o id \o "'")
    /\ (tool = "ValidateItemID" /\ pc = "done") =>
          LET id == request.id.v IN
          /\ (result.err = "") = StartsWith(id, "PVTI_")
          /\ result.err # "" =>
                /\ Contains(result.err, "'PVTI_'")
                /\ Contains(result.err, "'" \o id \o "'")

\* ValidateProjectID has rejected an ID that holds "PVT_" but not in front.
C7_Witness ==
    /\ tool = "ValidateProjectID"
    /\ pc = "done"
    /\ request.id = Str("XYZ_PVT_")
    /\ result.err # ""

\* The remediation hint for organization membership, and the number of times
\* it occurs in a text.
MemberHintText == "You need to be a member of the organization to perform this action."
MemberHints(text) == Cardinality(Occurrences(text, MemberHintText))

\* An entry that formatSingleError's rule list gives the membership hint.
IsMemberEntry(e) ==
    /\ Contains(formatSingleError_msg(e), "must be a member of the")
    /\ ~Contains(formatSingleError_msg(e), "Could not resolve to a node with the global id")

RECURSIVE MemberHintsExpected(_)
MemberHintsExpected(errors) ==
    IF Len(errors) = 0 THEN 0
    ELSE MemberHints(formatSingleError_msg(errors[1]))
         + (IF IsMemberEntry(errors[1]) THEN 1 ELSE 0)
         + MemberHintsExpected(Tail(errors))

\* C8 as stated: FormatGraphQLError of any error whose text contains
\* "must be a member of the" returns a string in which the membership hint
\* occurs exactly once.
C8_HintExactlyOnce ==
    (/\ tool = "FormatGraphQLError"
     /\ pc = "done"
     /\ Contains(request.err.v, "must be a member of the")) =>
        MemberHints(result.text) = 1

\* C8 amended: FormatGraphQLError appends the membership hint exactly once to
\* each parsed error entry whose message (with its path annotation) contains
\* "must be a member of the" and not the higher-priority phrase "Could not
\* resolve to a node with the global id", and to no other entry; the result
\* holds the hint exactly once when there is a single such entry and no
\* entry's message holds the hint text already.
C8_HintOncePerMemberEntry ==
    (/\ tool = "FormatGraphQLError"
     /\ pc = "done"
     /\ loc.gqlErr.ok) =>
        LET errors == loc.gqlErr.Errors IN
        /\ MemberHints(result.text) = MemberHintsExpected(errors)
        /\ (/\ Cardinality({i \in DOMAIN errors : IsMemberEntry(errors[i])}) = 1
            /\ \A i \in DOMAIN errors :
                  MemberHints(formatSingleError_msg(errors[i])) = 0) =>
              MemberHints(result.text) = 1

\* A plain membership error has been formatted with the hint at its end.
C8_Witness ==
    /\ tool = "FormatGraphQLError"
    /\ pc = "done"
    /\ request.err = Str("You must be a member of the acme organization")
    /\ MemberHints(result.text) = 1
    /\ HasSuffix(result.text, MemberHint)

\* C9 as stated: in every handler that acquires a client, a failure of the
\* client factory makes the handler return a nil result with a Go error (not
\* a tool-level error result), with no query or mutation issued.
C9_ClientFailureIsHard ==
    (clientErr /\ acquired > 0) =>
        /\ pc = "done"
        /\ result.kind = "goError"
        /\ calls = <<>>

CardToolNames == {"add_card_to_project", "move_project_card", "remove_card_from_project"}
CardMutations ==
    {"addProjectV2ItemById", "updateProjectV2ItemFieldValue", "archiveProjectV2Item",
     "deleteProjectV2Item"}

\* C10 as stated: a handler declared under the tool name add_card_to_project,
\* move_project_card or remove_card_from_project returns a success payload
\* only after it has issued one of the card mutations on the client.
C10_CardMutationsAreReal ==
    (/\ ToolName(tool) \in CardToolNames
     /\ pc = "done"
     /\ result.kind = "text") =>
        \E i \in DOMAIN calls :
            calls[i].kind = "Mutate" /\ calls[i].op \in CardMutations

\* C11: get_project_board honours its boolean flags: the result has the
\* statistics key iff include_stats is true or absent, and the fields and
\* fields_count keys iff include_fields is true or absent; an explicit false
\* omits the section.  The handler turns a false flag back into true
\* (projects.go:549-556), so an explicit false still yields the section.
C11_FlagsHonoured ==
    (/\ tool = "GetProjectBoard" /\ pc = "done" /\ result.kind = "text") =>
        LET keys == DOMAIN result.payload IN
        /\ "statistics" \in keys <=> request.include_stats \in {Absent, Bool(TRUE)}
        /\ "fields" \in keys <=> request.include_fields \in {Absent, Bool(TRUE)}
        /\ "fields_count" \in keys <=> request.include_fields \in {Absent, Bool(TRUE)}

\* C12: list_project_boards returns at most limit boards (default 20, never
\* more than 100): for any server data and any type filter, the number of
\* entries in projects, and total_count, do not exceed min(limit, 100).
\* The handler passes limit to both the user and the organization connection
\* and concatenates the two lists (projects.go:468-507), so type "all" can
\* return up to twice the limit.
C12_AtMostLimit ==
    (/\ tool = "ListProjectBoards" /\ pc = "done" /\ result.kind = "text") =>
        LET limit == OptionalIntParamWithDefault(request, "limit", DefaultLimit) IN
        /\ Len(result.payload.projects) <= Min(limit, MaxLimit)
        /\ result.payload.total_count <= Min(limit, MaxLimit)

\* C13: bulk_move_cards (BulkMoveCards) makes exactly one column-resolution
\* query, and after it exactly one updateProjectV2ItemFieldValue mutation per
\* input card ID, in input order, each issued only when the outcome of the
\* one before it has been recorded; a failed mutation neither ends the loop
\* nor is repeated.
C13_BulkMoveSequential ==
    tool = "BulkMoveCards" =>
        LET ids == OptionalStringArrayParam(request, "card_ids").value IN
        /\ \A k \in DOMAIN calls :
              IF k = 1
              THEN calls[k].kind = "Query" /\ calls[k].op = "column"
              ELSE /\ calls[k].kind = "Mutate"
                   /\ calls[k].op = "updateProjectV2ItemFieldValue"
                   /\ calls[1].ok
                   /\ k - 1 <= Len(ids)
                   /\ calls[k].input.itemId = ids[k - 1]
        /\ pc = "BulkMoveCards_mutate" =>
              /\ Len(calls) >= 1
              /\ Len(loc.results) = Len(calls) - 1
              /\ Len(calls) - 1 < Len(ids)
        /\ (pc = "done" /\ Len(calls) >= 1 /\ calls[1].ok) =>
              /\ Len(calls) = 1 + Len(ids)
              /\ result.kind = "text"

\* Three cards, the first mutation failing: the second and the third card
\* are still sent, once each, in input order.
C13_Witness ==
    /\ tool = "BulkMoveCards"
    /\ pc = "done"
    /\ Len(calls) = 4
    /\ ~calls[2].ok
    /\ request.card_ids.v = <<Str("PVTI_1"), Str("PVTI_2"), Str("PVTI_1")>>
    /\ calls[3].input.itemId = "PVTI_2"
    /\ calls[4].input.itemId = "PVTI_1"

\* The client calls a complete create_project_board invocation makes for the
\* request r, in order.
CreateCallOrder(r) ==
    <<"owner">>
    \o (IF OptionalParam(r, "repository", "str") # "" THEN <<"repository">> ELSE <<>>)
    \o <<"createProjectV2">>
    \o (IF OptionalParam(r, "public", "bool") THEN <<"updateProjectV2">> ELSE <<>>)

\* C14: create_project_board makes its client calls in the fixed order owner
\* query, repository query (only if repository is non-empty), createProjectV2
\* mutation, updateProjectV2 mutation (only if public is true), each at most
\* once; a failed owner query, repository query or create mutation ends the
\* invocation with a tool-level error and no later call is made.
C14_CreateCallOrder ==
    tool = "CreateProjectBoard" =>
        LET order == CreateCallOrder(request) IN
        /\ Len(calls) <= Len(order)
        /\ \A k \in DOMAIN calls :
              /\ calls[k].op = order[k]
              /\ calls[k].kind = IF order[k] \in {"owner", "repository"}
                                 THEN "Query" ELSE "Mutate"
              /\ (~calls[k].ok /\ calls[k].op # "updateProjectV2") =>
                    /\ k = Len(calls)
                    /\ pc = "done"
                    /\ result.kind = "toolError"
        /\ (pc = "done" /\ result.kind = "text") => Len(calls) = Len(order)

\* A repository-level public board: all four calls made, in order.
C14_Witness ==
    /\ tool = "CreateProjectBoard"
    /\ pc = "done"
    /\ result.kind = "text"
    /\ Len(calls) = 4
    /\ calls[2].op = "repository"
    /\ calls[4].op = "updateProjectV2"

\* A failed repository query: a tool-level error after two calls.
C14_WitnessAbort ==
    /\ tool = "CreateProjectBoard"
    /\ pc = "done"
    /\ result.kind = "toolError"
    /\ Len(calls) = 2
    /\ ~calls[2].ok

\* C15: create_project_board owner resolution: the ownerId of the creation
\* input is the user ID when the owner query returned a non-empty one,
\* otherwise the organization ID when that is non-empty; when both are empty
\* the handler returns the error "owner not found" and issues neither the
\* repository query nor the createProjectV2 mutation, so no createProjectV2
\* mutation carries an empty ownerId.
C15_OwnerResolution ==
    (/\ tool = "CreateProjectBoard" /\ Len(calls) >= 1 /\ calls[1].ok) =>
        LET ans == loc.ownerQuery IN
        /\ \A k \in DOMAIN calls :
              calls[k].op = "createProjectV2" =>
                 /\ calls[k].input.ownerId # ""
                 /\ calls[k].input.ownerId =
                       IF ans.user # "" THEN ans.user ELSE ans.organization
        /\ (ans.user = "" /\ ans.organization = "") =>
              /\ pc = "done"
              /\ result = NewToolResultError("owner not found")
              /\ Len(calls) = 1
        /\ (pc = "done" /\ result = NewToolResultError("owner not found")) =>
              (ans.user = "" /\ ans.organization = "")

\* Both IDs returned: the board is created under the user ID.
C15_Witness ==
    /\ tool = "CreateProjectBoard"
    /\ Issued("createProjectV2")
    /\ loc.ownerQuery = [user |-> "U_1", organization |-> "O_1"]
    /\ calls[Len(calls)].op = "createProjectV2"
    /\ calls[Len(calls)].input.ownerId = "U_1"

\* Neither ID returned: "owner not found" after the owner query alone.
C15_WitnessNotFound ==
    /\ tool = "CreateProjectBoard"
    /\ pc = "done"
    /\ Len(calls) = 1
    /\ calls[1].ok
    /\ result = NewToolResultError("owner not found")

\* The request parameter and its declared type behind each optional key of
\* the updateProjectV2 input.
UpdateInputKeys ==
    [title            |-> [param |-> "title", type |-> "str"],
     description      |-> [param |-> "description", type |-> "str"],
     shortDescription |-> [param |-> "short_description", type |-> "str"],
     public           |-> [param |-> "public", type |-> "bool"],
     closed           |-> [param |-> "closed", type |-> "bool"]]

\* C16: update_project_board sparse update: the updateProjectV2 input always
\* has projectId equal to board_id, and has each of title, description,
\* shortDescription, public, closed only if the request carries the
\* corresponding parameter with a value of the declared type (and then with
\* that value); a field absent from the request is never put into the input.
C16_SparseUpdate ==
    tool = "UpdateProjectBoard" =>
        \A k \in DOMAIN calls :
            LET input == calls[k].input IN
            /\ calls[k].op = "updateProjectV2"
            /\ "projectId" \in DOMAIN input
            /\ request.board_id.tag = "str"
            /\ input.projectId = request.board_id.v
            /\ DOMAIN input \subseteq {"projectId"} \cup DOMAIN UpdateInputKeys
            /\ \A key \in DOMAIN input \ {"projectId"} :
                  LET param == request[UpdateInputKeys[key].param] IN
                  /\ param.tag = UpdateInputKeys[key].type
                  /\ input[key] = param.v

\* Only title and closed given, public given as a string: the input holds
\* projectId, title and closed and nothing else.
C16_Witness ==
    /\ tool = "UpdateProjectBoard"
    /\ Len(calls) = 1
    /\ request.title = Str("t")
    /\ request.closed = Bool(TRUE)
    /\ request.public = Str("yes")
    /\ request.description = Absent
    /\ DOMAIN calls[1].input = {"projectId", "title", "closed"}

\* The handlers of the column tools that would change a column.
ColumnWriters ==
    {"CreateProjectColumn", "UpdateProjectColumn", "DeleteProjectColumn",
     "ReorderProjectColumns"}

\* C17: create_project_column, update_project_column, delete_project_column
\* and reorder_project_columns never persist anything: none makes a Mutate
\* call; update, delete and reorder make no client call at all; create makes
\* at most one call, the read-only Status field query, and returns an error
\* and no success payload when the project has no Status field.
C17_ColumnWritersPersistNothing ==
    tool \in ColumnWriters =>
        /\ \A k \in DOMAIN calls : calls[k].kind # "Mutate"
        /\ tool # "CreateProjectColumn" => (calls = <<>> /\ acquired = 0)
        /\ tool = "CreateProjectColumn" =>
              /\ Len(calls) <= 1
              /\ \A k \in DOMAIN calls :
                    calls[k].kind = "Query" /\ calls[k].op = "statusField"
              /\ (pc = "done" /\ Len(calls) = 1 /\ calls[1].ok
                     /\ loc.statusField.ID = "") =>
                    result = NewToolResultError("project does not have a Status field")

\* create_project_column answered with success after its one query.
C17_Witness ==
    /\ tool = "CreateProjectColumn"
    /\ pc = "done"
    /\ result.kind = "text"
    /\ Len(calls) = 1
    /\ calls[1].kind = "Query"

\* create_project_column on a project without a Status field.
C17_WitnessNoStatus ==
    /\ tool = "CreateProjectColumn"
    /\ pc = "done"
    /\ Len(calls) = 1
    /\ calls[1].ok
    /\ loc.statusField.ID = ""
    /\ result.kind = "toolError"

\* reorder_project_columns answered with success and no client call.
C17_WitnessReorder ==
    /\ tool = "ReorderProjectColumns"
    /\ pc = "done"
    /\ result.kind = "text"
    /\ calls = <<>>

\* C18: move_project_card (MoveProjectCard) resolves before it mutates: the
\* column query is issued exactly once and before the
\* updateProjectV2ItemFieldValue mutation; if the query fails no mutation is
\* issued; the mutation's projectId and fieldId are the values the query
\* returned, its itemId the request's card_id and its singleSelectOptionId
\* the request's column_id.
C18_MoveResolvesFirst ==
    tool = "MoveProjectCard" =>
        /\ Len(calls) <= 2
        /\ Len(calls) >= 1 =>
              /\ calls[1].kind = "Query"
              /\ calls[1].op = "column"
              /\ calls[1].input.columnId = request.column_id.v
              /\ ~calls[1].ok =>
                    (Len(calls) = 1 /\ pc = "done" /\ result.kind = "toolError")
        /\ Len(calls) = 2 =>
              /\ calls[1].ok
              /\ calls[2].kind = "Mutate"
              /\ calls[2].op = "updateProjectV2ItemFieldValue"
              /\ calls[2].input.projectId = loc.projectID
              /\ calls[2].input.fieldId = loc.fieldID
              /\ calls[2].input.itemId = request.card_id.v
              /\ calls[2].input.value.singleSelectOptionId = request.column_id.v
        /\ (pc = "done" /\ result.kind = "text") => Len(calls) = 2

\* A move carried out: the query answered F_2 / PVT_1 and the mutation names
\* that field and project.
C18_Witness ==
    /\ tool = "MoveProjectCard"
    /\ pc = "done"
    /\ result.kind = "text"
    /\ Len(calls) = 2
    /\ loc.fieldID = "F_2"
    /\ calls[2].input.fieldId = "F_2"
    /\ calls[2].input.projectId = "PVT_1"

\* The column query failed: no mutation.
C18_WitnessQueryFailed ==
    /\ tool = "MoveProjectCard"
    /\ pc = "done"
    /\ Len(calls) = 1
    /\ ~calls[1].ok

\* The mutations update_project_card has made so far: its calls after the
\* item query.
FieldMutations == SubSeq(calls, 2, Len(calls))

C20_RemoveSelectsOneMutation ==
    tool = "RemoveCardFromProject" =>
        /\ Len(calls) <= 1
        /\ \A k \in DOMAIN calls :
              /\ calls[k].kind = "Mutate"
              /\ calls[k].input.itemId = request.card_id.v
              /\ calls[k].op = IF request.archive = Bool(TRUE)
                               THEN "archiveProjectV2Item"
                               ELSE "deleteProjectV2Item"
              /\ pc = "done"
              /\ result.kind = IF calls[k].ok THEN "text" ELSE "toolError"
        /\ (pc = "done" /\ ~clientErr /\ request.card_id.tag = "str") => Len(calls) = 1
        /\ (pc = "done" /\ result.kind = "text") => (Len(calls) = 1 /\ calls[1].ok)

\* archive=true: one archiveProjectV2Item mutation and a success payload.
C20_Witness ==
    /\ tool = "RemoveCardFromProject"
    /\ pc = "done"
    /\ request.archive = Bool(TRUE)
    /\ Len(calls) = 1
    /\ calls[1].op = "archiveProjectV2Item"
    /\ result.kind = "text"

\* archive absent: one deleteProjectV2Item mutation, which failed.
C20_WitnessDeleteFailed ==
    /\ tool = "RemoveCardFromProject"
    /\ pc = "done"
    /\ request.archive = Absent
    /\ Len(calls) = 1
    /\ calls[1].op = "deleteProjectV2Item"
    /\ ~calls[1].ok
    /\ result.kind = "toolError"

\* The IDs of a sequence of items or cards, in order.
ItemIDs(items) == [i \in DOMAIN items |-> items[i].ID]
CardIDsOf(cards) == [i \in DOMAIN cards |-> cards[i].id]

\* C21: list_project_cards archived filter: when include_archived is false
\* or absent no card of the output has archived = true, whatever items the
\* server returned; when include_archived is true the archived items are not
\* dropped by this filter (with no other filter every item is listed).
C21_ArchivedFilter ==
    (/\ tool = "ListProjectCards" /\ pc = "done" /\ result.kind = "text") =>
        LET cards == result.payload.cards
            items == loc.page.Items
        IN  /\ request.include_archived \in {Absent, Bool(FALSE)} =>
                  /\ \A i \in DOMAIN cards : ~cards[i].archived
                  /\ CardIDsOf(cards) =
                        ItemIDs(SelectSeq(items, LAMBDA it :
                                   /\ ~it.Archived
                                   /\ ~ListProjectCards_skipType(it, loc.contentType)
                                   /\ ~ListProjectCards_skipColumn(it, loc.columnID)))
            /\ request.include_archived = Bool(TRUE) =>
                  /\ CardIDsOf(cards) =
                        ItemIDs(SelectSeq(items, LAMBDA it :
                                   /\ ~ListProjectCards_skipType(it, loc.contentType)
                                   /\ ~ListProjectCards_skipColumn(it, loc.columnID)))
                  /\ (request.column_id = Absent /\ request.content_type = Absent) =>
                        CardIDsOf(cards) = ItemIDs(items)

\* include_archived absent and the server returned an archived item next to
\* a live one: only the live one is listed.
C21_Witness ==
    /\ tool = "ListProjectCards"
    /\ pc = "done"
    /\ result.kind = "text"
    /\ request.include_archived = Absent
    /\ request.column_id = Absent
    /\ request.content_type = Absent
    /\ Len(loc.page.Items) = 2
    /\ loc.page.Items[1].Archived
    /\ ~loc.page.Items[2].Archived
    /\ Len(result.payload.cards) = 1

\* include_archived = true: an archived item is listed.
C21_WitnessIncluded ==
    /\ tool = "ListProjectCards"
    /\ pc = "done"
    /\ result.kind = "text"
    /\ request.include_archived = Bool(TRUE)
    /\ \E i \in DOMAIN result.payload.cards : result.payload.cards[i].archived

\* C22: list_project_cards filter soundness: every card of the output meets
\* every requested filter: with column_id given its Status field value has
\* that option ID (an item without a Status value is left out); with
\* content_type "issue" its type is "Issue", with "pull_request" it is
\* "PullRequest"; and count is the number of cards in the output.
C22_FilterSoundness ==
    (/\ tool = "ListProjectCards" /\ pc = "done" /\ result.kind = "text") =>
        LET cards == result.payload.cards IN
        /\ result.payload.count = Len(cards)
        /\ \A i \in DOMAIN cards :
              /\ request.column_id.tag = "str" /\ request.column_id.v # "" =>
                    /\ "Status" \in DOMAIN cards[i].fields
                    /\ cards[i].fields["Status"].id = request.column_id.v
              /\ request.content_type = Str("issue") => cards[i].type = "Issue"
              /\ request.content_type = Str("pull_request") => cards[i].type = "PullRequest"

\* column_id and content_type "issue" given; of two items returned, one with
\* no Status value, only the issue in that column is listed.
C22_Witness ==
    /\ tool = "ListProjectCards"
    /\ pc = "done"
    /\ result.kind = "text"
    /\ request.column_id = Str("O_1")
    /\ request.content_type = Str("issue")
    /\ Len(loc.page.Items) = 2
    /\ \E i \in DOMAIN loc.page.Items : loc.page.Items[i].FieldValues = <<>>
    /\ Len(result.payload.cards) = 1
    /\ result.payload.count = 1

\* C23: list limits are capped at 100: in list_project_boards and
\* list_project_cards the limit sent to the server as the page size is 20
\* when the parameter is absent and min(requested, 100) otherwise, so it
\* never exceeds 100.
C23_LimitCapped ==
    tool \in {"ListProjectBoards", "ListProjectCards"} =>
        \A k \in DOMAIN calls :
            /\ calls[k].input.limit <= 100
            /\ request.limit = Absent => calls[k].input.limit = 20
            /\ request.limit.tag = "num" =>
                  calls[k].input.limit = Min(request.limit.v, 100)

\* list_project_cards asked for 150 items: the query carries limit 100.
C23_Witness ==
    /\ tool = "ListProjectCards"
    /\ request.limit = Num(150)
    /\ Len(calls) = 1
    /\ calls[1].input.limit = 100

\* list_project_boards without a limit: the query carries limit 20.
C23_WitnessDefault ==
    /\ tool = "ListProjectBoards"
    /\ request.limit = Absent
    /\ Len(calls) = 1
    /\ calls[1].input.limit = 20

\* The IDs of a list of nodes, in order.
NodeIDs(nodes) == [i \in DOMAIN nodes |-> nodes[i].ID]
OutputIDs(entries) == [i \in DOMAIN entries |-> entries[i].id]

\* Whether the output content key of out is the one the content discriminant
\* calls for: absent unless TypeName is Issue or PullRequest, and then taken
\* from the branch of that name.
ContentFromNamedBranch(content, out) ==
    /\ "content" \in DOMAIN out <=> content.TypeName \in {"Issue", "PullRequest"}
    /\ content.TypeName = "Issue" =>
          /\ out.content.id = content.Issue.ID
          /\ out.content.number = content.Issue.Number
          /\ out.content.url = content.Issue.URL
          /\ "is_draft" \notin DOMAIN out.content
    /\ content.TypeName = "PullRequest" =>
          /\ out.content.id = content.PullRequest.ID
          /\ out.content.number = content.PullRequest.Number
          /\ out.content.url = content.PullRequest.URL
          /\ out.content.is_draft = content.PullRequest.IsDraft

\* Whether the field info of get_project_card holds the value of the branch
\* the field value's TypeName names, and no value for any other TypeName.
CardValueFromNamedBranch(fv, info) ==
    CASE fv.TypeName = "ProjectV2ItemFieldSingleSelectValue" ->
            info.value.id = fv.SingleSelectValue.ID /\ info.value.name = fv.SingleSelectValue.Name
      [] fv.TypeName = "ProjectV2ItemFieldTextValue"   -> info.value = fv.TextValue
      [] fv.TypeName = "ProjectV2ItemFieldNumberValue" -> info.value = fv.NumberValue
      [] fv.TypeName = "ProjectV2ItemFieldDateValue"   -> info.value = fv.DateValue
      [] fv.TypeName = "ProjectV2ItemFieldIterationValue" ->
            info.value.id = fv.IterationValue.ID /\ info.value.title = fv.IterationValue.Title
      [] fv.TypeName = "ProjectV2ItemFieldRepositoryValue" ->
            info.value.id = fv.RepositoryValue.ID
      [] fv.TypeName = "ProjectV2ItemFieldUserValue" ->
            OutputIDs(info.value) = NodeIDs(fv.UserValue)
      [] fv.TypeName = "ProjectV2ItemFieldLabelValue" ->
            OutputIDs(info.value) = NodeIDs(fv.LabelValue)
      [] fv.TypeName = "ProjectV2ItemFieldMilestoneValue" ->
            info.value.id = fv.MilestoneValue.ID
      [] fv.TypeName = "ProjectV2ItemFieldPullRequestValue" ->
            OutputIDs(info.value) = NodeIDs(fv.PullRequestValue)
      [] OTHER -> "value" \notin DOMAIN info

\* Whether the fields map of a list_project_cards card holds, for each field
\* value of a flattened type, the value of the branch its TypeName names,
\* and nothing for a field whose values are all of another type.
ListFieldsFromNamedBranch(nodes, fields) ==
    LET Flattened(fv) ==
            fv.TypeName \in {"ProjectV2ItemFieldSingleSelectValue", "ProjectV2ItemFieldTextValue",
                             "ProjectV2ItemFieldNumberValue", "ProjectV2ItemFieldDateValue"}
        Last(i) == \A j \in (i + 1)..Len(nodes) :
                      ~(Flattened(nodes[j]) /\ nodes[j].FieldName = nodes[i].FieldName)
    IN  /\ DOMAIN fields = {nodes[i].FieldName : i \in {k \in DOMAIN nodes : Flattened(nodes[k])}}
        /\ \A i \in DOMAIN nodes :
              (Flattened(nodes[i]) /\ Last(i)) =>
                 LET fv == nodes[i]
                     v  == fields[fv.FieldName]
                 IN  CASE fv.TypeName = "ProjectV2ItemFieldSingleSelectValue" ->
                             v.id = fv.SingleSelectValue.ID /\ v.name = fv.SingleSelectValue.Name
                       [] fv.TypeName = "ProjectV2ItemFieldTextValue"   -> v = fv.TextValue
                       [] fv.TypeName = "ProjectV2ItemFieldNumberValue" -> v = fv.NumberValue
                       [] fv.TypeName = "ProjectV2ItemFieldDateValue"   -> v = fv.DateValue

\* C24: variant discrimination in get_project_card and list_project_cards:
\* the content key is present iff the content's TypeName is Issue or
\* PullRequest and is taken from the branch of that name; each field value
\* is taken from the branch its own TypeName names; data in another branch
\* never reaches the output, and an unknown TypeName yields no value and no
\* content.
C24_VariantDiscrimination ==
    /\ (tool = "GetProjectCard" /\ pc = "done" /\ result.kind = "text") =>
          LET item  == loc.item
              nodes == item.FieldValues
              out   == result.payload
          IN  /\ ContentFromNamedBranch(item.Content, out)
              /\ out.type = item.Content.TypeName
              /\ DOMAIN out.fields = {nodes[i].Field.Name : i \in DOMAIN nodes}
              /\ \A i \in DOMAIN nodes :
                    (\A j \in (i + 1)..Len(nodes) : nodes[j].Field.Name # nodes[i].Field.Name) =>
                       CardValueFromNamedBranch(nodes[i], out.fields[nodes[i].Field.Name])
    /\ (tool = "ListProjectCards" /\ pc = "done" /\ result.kind = "text") =>
          LET cards == result.payload.cards
              items == loc.page.Items
          IN  \A c \in DOMAIN cards :
                 \E i \in DOMAIN items :
                    /\ items[i].ID = cards[c].id
                    /\ ContentFromNamedBranch(items[i].Content, cards[c])
                    /\ cards[c].type = items[i].Content.TypeName
                    /\ ListFieldsFromNamedBranch(items[i].FieldValues, cards[c].fields)

\* get_project_card on an item whose content says Issue while the
\* PullRequest branch holds data too, and whose field values hold data in
\* branches they do not name: the content is the issue's, the text value is
\* the text and the value of unknown type has no value key.
C24_Witness ==
    /\ tool = "GetProjectCard"
    /\ pc = "done"
    /\ result.kind = "text"
    /\ loc.item.Content.TypeName = "Issue"
    /\ loc.item.Content.PullRequest.ID # ""
    /\ Len(loc.item.FieldValues) = 2
    /\ loc.item.FieldValues[1].TypeName = "ProjectV2ItemFieldTextValue"
    /\ loc.item.FieldValues[1].SingleSelectValue.ID # ""
    /\ result.payload.content.id = "I_1"
    /\ result.payload.fields["Notes"].value = "note"
    /\ "value" \notin DOMAIN result.payload.fields["Reviewers"]

\* list_project_cards on a draft item whose Issue branch holds data: the card
\* has no content key.
C24_WitnessList ==
    /\ tool = "ListProjectCards"
    /\ pc = "done"
    /\ result.kind = "text"
    /\ \E c \in DOMAIN result.payload.cards :
          /\ result.payload.cards[c].id = "PVTI_5"
          /\ "content" \notin DOMAIN result.payload.cards[c]
          /\ DOMAIN result.payload.cards[c].fields = {"Notes"}

\* The text a zero time.Time formats to.
ZeroTimeText == "0001-01-01T00:00:00Z"

\* Whether the date key of the output map out is there only for a non-zero
\* timestamp t, and never holds the formatted zero time.
DateOmittedWhenZero(out, key, t) ==
    key \in DOMAIN out => (~IsZero(t) /\ out[key] # ZeroTimeText)

\* C25: zero-valued dates are omitted: in a handler's output a date key
\* (created_at, updated_at, closed_at, merged_at, due_on) is present only
\* when the underlying timestamp is non-zero, and no output carries a
\* formatted zero timestamp.  Stated for get_project_card; the handler
\* guards closed_at and merged_at only and formats created_at, updated_at
\* and a milestone's due_on whatever their value (part_003:840, 862-863).
C25_ZeroDatesOmitted ==
    (/\ tool = "GetProjectCard" /\ pc = "done" /\ result.kind = "text") =>
        LET item  == loc.item
            nodes == item.FieldValues
            out   == result.payload
        IN  /\ DateOmittedWhenZero(out, "created_at", item.CreatedAt)
            /\ DateOmittedWhenZero(out, "updated_at", item.UpdatedAt)
            /\ \A i \in DOMAIN nodes :
                  nodes[i].TypeName = "ProjectV2ItemFieldMilestoneValue" =>
                     DateOmittedWhenZero(out.fields[nodes[i].Field.Name].value, "due_on",
                                         nodes[i].MilestoneValue.DueOn)
            /\ item.Content.TypeName = "Issue" =>
                  /\ DateOmittedWhenZero(out.content, "created_at", item.Content.Issue.CreatedAt)
                  /\ DateOmittedWhenZero(out.content, "closed_at", item.Content.Issue.ClosedAt)
            /\ item.Content.TypeName = "PullRequest" =>
                  /\ DateOmittedWhenZero(out.content, "closed_at", item.Content.PullRequest.ClosedAt)
                  /\ DateOmittedWhenZero(out.content, "merged_at", item.Content.PullRequest.MergedAt)

\* The sum of item_count over the first n columns.
RECURSIVE ItemCountSum(_, _)
ItemCountSum(columns, n) ==
    IF n = 0 THEN 0 ELSE columns[n].item_count + ItemCountSum(columns, n - 1)

\* C26: list_project_columns item counts: each column's item_count is the
\* number of fetched items whose Status value has that column's option ID;
\* the columns follow the order of the Status field's options with position
\* the zero-based index; total_count is the number of columns; and the sum
\* of item_count over the columns does not exceed the number of fetched
\* items.
C26_ColumnItemCounts ==
    (/\ tool = "ListProjectColumns" /\ pc = "done" /\ result.kind = "text") =>
        LET columns == result.payload.columns
            options == loc.statusField.Options
            items   == loc.items
        IN  /\ Len(columns) = Len(options)
            /\ result.payload.total_count = Len(columns)
            /\ \A i \in DOMAIN columns :
                  /\ columns[i].id = options[i].ID
                  /\ columns[i].name = options[i].Name
                  /\ columns[i].position = i - 1
                  /\ columns[i].item_count =
                        Cardinality({k \in DOMAIN items : items[k] = columns[i].id})
            /\ ItemCountSum(columns, Len(columns)) <= Len(items)

\* Two columns and two items, one in the first column and one in an option
\* that is no column: counts 1 and 0.
C26_Witness ==
    /\ tool = "ListProjectColumns"
    /\ pc = "done"
    /\ result.kind = "text"
    /\ loc.items = <<"O_9", "O_1">>
    /\ Len(result.payload.columns) = 2
    /\ result.payload.columns[1].item_count = 1
    /\ result.payload.columns[2].item_count = 0


\* The text is a JSON document holding a non-empty error list.
IsErrorList(text) == Unmarshal(text).ok /\ Len(Unmarshal(text).value) > 0

\* What ParseGraphQLError and FormatGraphQLError return for an error that is
\* nil or whose text is not a JSON error list, when the phrases matched are
\* those of the given set.
ClassifiedBy(phrases) ==
    /\ (tool = "ParseGraphQLError" /\ pc = "done" /\ request.err = Absent) =>
          result.gqlErr = [Errors |-> <<>>, ok |-> FALSE]
    /\ (/\ tool = "ParseGraphQLError"
        /\ pc = "done"
        /\ request.err # Absent
        /\ ~IsErrorList(request.err.v)) =>
          LET text == request.err.v IN
          IF \E p \in phrases : Contains(text, p)
          THEN result.gqlErr = [Errors |-> <<GraphQLError(text, <<>>)>>, ok |-> TRUE]
          ELSE result.gqlErr = [Errors |-> <<>>, ok |-> FALSE]
    /\ (/\ tool = "FormatGraphQLError"
        /\ pc = "done"
        /\ ~IsErrorList(request.err.v)
        /\ ~\E p \in phrases : Contains(request.err.v, p)) =>
          result = StringValue(request.err.v)

\* C27 as stated: for a non-nil error whose text is not a JSON error list,
\* ParseGraphQLError returns (structured error, true) iff the text contains
\* "could not resolve to", "was not found", "must be a member" or
\* "insufficient scopes", with the full text as its single entry's message;
\* otherwise it returns (nil, false) and FormatGraphQLError returns the text
\* verbatim; for a nil error it returns (nil, false).
C27_ClassifiedByLowerCasePhrases ==
    ClassifiedBy({"could not resolve to", "was not found",
                  "must be a member", "insufficient scopes"})

\* C27 amended: the first phrase is matched with its capital letter, "Could
\* not resolve to"; the test is case-sensitive, so a text that holds only
\* "could not resolve to" is passed through as an unmatched error.
C27_ClassifiedByPhrases ==
    ClassifiedBy({"Could not resolve to", "was not found",
                  "must be a member", "insufficient scopes"})

\* GitHub's node-resolution error has been parsed into a single entry.
C27_Witness ==
    /\ tool = "ParseGraphQLError"
    /\ pc = "done"
    /\ request.err = Str("Could not resolve to a node with the global id of 'PVT_1'")
    /\ result.gqlErr.ok
    /\ Len(result.gqlErr.Errors) = 1

\* The same phrase in lower case has been passed through verbatim.
C27_WitnessLowerCase ==
    /\ tool = "FormatGraphQLError"
    /\ pc = "done"
    /\ request.err = Str("could not resolve to a node")
    /\ result.text = "could not resolve to a node"

\* A nil error has been parsed.
C27_WitnessNil ==
    /\ tool = "ParseGraphQLError"
    /\ pc = "done"
    /\ request.err = Absent
    /\ ~result.gqlErr.ok


\* C28 as stated: in every handler, a request that omits a required
\* parameter returns the parameter-validation error without the client
\* factory having been called, whether or not the factory would have
\* succeeded.
C28_ValidationBeforeClient ==
    \A p \in Required(tool) :
        request[p] = Absent =>
            /\ pc = "done"
            /\ acquired = 0
            /\ result.kind = "toolError"
            /\ ~HasPrefix(result.msg, "Failed to get GraphQL client")


\* C29 as stated: MoveProjectCard and BulkMoveCards issue an
\* updateProjectV2ItemFieldValue mutation only with the non-empty field ID
\* and the non-empty project ID the column query produced; when the column
\* ID resolves to a node that is no single-select option, so that both IDs
\* are empty, no mutation is issued.
C29_MoveContextResolved ==
    tool \in {"MoveProjectCard", "BulkMoveCards"} =>
        \A i \in DOMAIN calls :
            calls[i].op = "updateProjectV2ItemFieldValue" =>
                /\ calls[i].input.fieldId # ""
                /\ calls[i].input.projectId # ""


Validators == {"ValidateProjectID", "ValidateColumnID", "ValidateItemID"}

\* The validators that return no error for an ID.
AcceptedBy(id) ==
    {v \in Validators :
        (CASE v = "ValidateProjectID" -> ValidateProjectID(id)
           [] v = "ValidateColumnID"  -> ValidateColumnID(id)
           [] v = "ValidateItemID"    -> ValidateItemID(id)) = ""}

\* C30: the three identifier namespaces are mutually exclusive: for every ID
\* at most one of ValidateProjectID, ValidateColumnID and ValidateItemID
\* returns no error, so an ID one validator has accepted is rejected by the
\* other two.
C30_NamespacesExclusive ==
    (tool \in Validators /\ pc = "done") =>
        LET id == request.id.v IN
        /\ Cardinality(AcceptedBy(id)) <= 1
        /\ result.err = "" => AcceptedBy(id) = {tool}

\* ValidateProjectID has accepted an ID the other two validators reject.
C30_Witness ==
    /\ tool = "ValidateProjectID"
    /\ pc = "done"
    /\ request.id = Str("PVT_kwDOAM6J184ACzDx")
    /\ result.err = ""
    /\ ValidateColumnID(request.id.v) # ""
    /\ ValidateItemID(request.id.v) # ""

\* ValidateProjectID has rejected an item ID, which ValidateItemID accepts.
C30_WitnessItem ==
    /\ tool = "ValidateProjectID"
    /\ pc = "done"
    /\ request.id = Str("PVTI_abc")
    /\ result.err # ""
    /\ AcceptedBy(request.id.v) = {"ValidateItemID"}

====
